---- MODULE Spec2Model ----
(***************************************************************************)
(* A model of the secondary-skill container and level-up planner           *)
(* (src/fheroes2/heroes/skill.cpp) and of the spell cost / classification  *)
(* functions (src/fheroes2/spell/spell.cpp).                               *)
(***************************************************************************)
EXTENDS Integers, Sequences, FiniteSets, TLC

VARIABLES
    secs,       \* Skill::SecSkills: the hero's vector of Secondary entries
    sec1,       \* first output entry the caller hands to FindSkillsForLevelUp
    sec2,       \* second output entry the caller hands to FindSkillsForLevelUp
    last,       \* the skill operation performed last, with its arguments
    calls,      \* number of operations performed so far
    query,      \* the last Spell::spellPoints query: spell, caster, returned cost
    valuation,  \* the last Spell::getStrategicValue query: arguments and value
    primary,    \* Skill::Primary: the hero's attack, defense, power, knowledge
    rng,        \* state of the process-wide random generator behind Rand::Get
    decision,   \* the random decision made last: operation, arguments, result
    earlier     \* the random decision made before it

skillVars == <<secs, sec1, sec2, last, calls>>
spellVars == <<query, valuation>>
randVars == <<primary, rng, decision, earlier>>
vars == <<secs, sec1, sec2, last, calls, query, valuation, primary, rng, decision, earlier>>

(***************************************************************************)
(* Bounds of the model.                                                    *)
(***************************************************************************)
\* operations explored after construction
MaxCalls == 2
\* number of skills the race's initial-skill table hands to the constructor
MaxInitSkills == 9
\* highest secondary-skill id offered to AddSkill by a caller
MaxInputSkill == 8
\* seeds a caller passes run over 0..MaxSeed
MaxSeed == 2
\* longest list of artifact percentages a caster carries
MaxArtifacts == 2
\* the process-wide generator has the states 0..MaxRng
MaxRng == 3
\* hero levels passed to Primary::LevelUp run over 1..MaxHeroLevel
MaxHeroLevel == 3
\* spell levels passed to Spell::Rand run over 0..MaxSpellLevel
MaxSpellLevel == 6
\* spell points of the caster run over 0..MaxSpellPoints
MaxSpellPoints == 110
\* army strengths run over 0..MaxArmyStrength
MaxArmyStrength == 1
\* spell powers run over 0..MaxSpellPower
MaxSpellPower == 1
\* school modifiers of the spell effect run over 0..MaxSchoolModifier
MaxSchoolModifier == 1
\* a run makes up to MaxQueries queries of spell costs or values
MaxQueries == 1
\* NextLevel is called up to MaxNextLevelCalls times on an entry
MaxNextLevelCalls == 4
\* serialized skill vectors hold up to MaxLoadLen entries
MaxLoadLen == 9
\* rounds of level-up a progression is followed for
MaxRounds == 25
\* seeds passed to FindSkillsForLevelUp in a progression run over 0..MaxProgressSeed
MaxProgressSeed == 0

(***************************************************************************)
(* Skill::Level and Skill::Secondary enumerants.                           *)
(***************************************************************************)
NONE == 0
BASIC == 1
ADVANCED == 2
EXPERT == 3

UNKNOWN == 0
PATHFINDING == 1
ARCHERY == 2
LOGISTICS == 3
SCOUTING == 4
DIPLOMACY == 5
NAVIGATION == 6
LEADERSHIP == 7
WISDOM == 8
MYSTICISM == 9
LUCK == 10
BALLISTICS == 11
EAGLEEYE == 12
NECROMANCY == 13
ESTATES == 14
OFFENSE == 15
AIRMAGIC == 16
ARMORER == 17
ARTILLERY == 18
EARTHMAGIC == 19
FIREMAGIC == 20
FIRSTAID == 21
INTELLIGENCE == 22
LEARNING == 23
RESISTANCE == 24
SCHOLAR == 25
SORCERY == 26
TACTICS == 27
WATERMAGIC == 28

MAXSECONDARYSKILL == 28
HEROESMAXSKILL == 8

\* const int secskills[]
secskills ==
    << PATHFINDING, ARCHERY, LOGISTICS, SCOUTING, DIPLOMACY, NAVIGATION, LEADERSHIP,
       WISDOM, MYSTICISM, LUCK, BALLISTICS, EAGLEEYE, NECROMANCY, ESTATES,
       OFFENSE, AIRMAGIC, ARMORER, ARTILLERY, EARTHMAGIC, FIREMAGIC, FIRSTAID,
       INTELLIGENCE, LEARNING, RESISTANCE, SCHOLAR, SORCERY, TACTICS, WATERMAGIC >>

(***************************************************************************)
(* Skill::Secondary: a pair (skill, level).                                *)
(***************************************************************************)
\* Secondary::SetSkill
SetSkill(s, skill) ==
    [s EXCEPT !.skill = IF skill >= UNKNOWN /\ skill <= MAXSECONDARYSKILL THEN skill ELSE UNKNOWN]

\* Secondary::SetLevel
SetLevel(s, level) ==
    [s EXCEPT !.level = IF level >= NONE /\ level <= EXPERT THEN level ELSE NONE]

\* Secondary::Secondary()
SecondaryDefault == [skill |-> UNKNOWN, level |-> NONE]

\* Secondary::Secondary( int skill, int level )
Secondary(skill, level) == SetLevel(SetSkill(SecondaryDefault, skill), level)

\* NextLevel stepping on from EXPERT
NextLevelWrap(s) ==
    CASE s.level = NONE     -> [s EXCEPT !.level = BASIC]
      [] s.level = BASIC    -> [s EXCEPT !.level = ADVANCED]
      [] s.level = ADVANCED -> [s EXCEPT !.level = EXPERT]
      [] s.level = EXPERT   -> [s EXCEPT !.level = NONE]
      [] OTHER              -> s

\* Secondary::NextLevel
NextLevel(s) ==
    CASE s.level = NONE     -> [s EXCEPT !.level = BASIC]
      [] s.level = BASIC    -> [s EXCEPT !.level = ADVANCED]
      [] s.level = ADVANCED -> [s EXCEPT !.level = EXPERT]
      [] OTHER              -> s

\* isValid testing the level only
isValidLevelOnly(s) == s.level # NONE

\* Secondary::isValid
isValid(s) == s.skill # UNKNOWN /\ s.level # NONE

\* Secondary::isSkill (used by every find_if of SecSkills)
isSkill(s, skill) == s.skill = skill

(***************************************************************************)
(* Skill::SecSkills: std::vector<Secondary>.                               *)
(***************************************************************************)
\* std::find_if( begin(), end(), isSkill ): index of the first match, 0 for end()
RECURSIVE FindIfSkill(_, _, _)
FindIfSkill(v, skill, i) ==
    IF i > Len(v) THEN 0
    ELSE IF isSkill(v[i], skill) THEN i
    ELSE FindIfSkill(v, skill, i + 1)

\* std::find_if( begin(), end(), !isValid ): index of the first empty slot, 0 for end()
RECURSIVE FindIfNotValid(_, _)
FindIfNotValid(v, i) ==
    IF i > Len(v) THEN 0
    ELSE IF ~isValid(v[i]) THEN i
    ELSE FindIfNotValid(v, i + 1)

\* SecSkills::GetLevel
GetLevel(v, skill) ==
    LET it == FindIfSkill(v, skill, 1)
    IN  IF it = 0 THEN NONE ELSE v[it].level

\* SecSkills::Count
Count(v) == Cardinality({i \in 1..Len(v) : isValid(v[i])})

\* SecSkills::GetTotalLevel
RECURSIVE GetTotalLevelFrom(_, _)
GetTotalLevelFrom(v, i) ==
    IF i > Len(v) THEN 0
    ELSE (IF isValid(v[i]) THEN v[i].level ELSE 0) + GetTotalLevelFrom(v, i + 1)

GetTotalLevel(v) == GetTotalLevelFrom(v, 1)

\* AddSkill that never reuses a slot that is not valid
AddSkillNoReuse(v, skill) ==
    IF isValid(skill)
    THEN LET it == FindIfSkill(v, skill.skill, 1)
         IN  IF it # 0
             THEN [v EXCEPT ![it] = SetLevel(v[it], skill.level)]
             ELSE IF Len(v) < HEROESMAXSKILL
                  THEN Append(v, skill)
                  ELSE v
    ELSE v

\* AddSkill without the isValid test of the entry
AddSkillUnchecked(v, skill) ==
    LET it == FindIfSkill(v, skill.skill, 1)
    IN  IF it # 0
        THEN [v EXCEPT ![it] = SetLevel(v[it], skill.level)]
        ELSE LET it2 == FindIfNotValid(v, 1)
             IN  IF it2 # 0
                 THEN [v EXCEPT ![it2] = skill]
                 ELSE IF Len(v) < HEROESMAXSKILL
                      THEN Append(v, skill)
                      ELSE v

\* AddSkill overwriting the level of a present skill only with a higher one
AddSkillKeepHigher(v, skill) ==
    IF isValid(skill)
    THEN LET it == FindIfSkill(v, skill.skill, 1)
         IN  IF it # 0
             THEN IF v[it].level < skill.level
                  THEN [v EXCEPT ![it] = SetLevel(v[it], skill.level)]
                  ELSE v
             ELSE LET it2 == FindIfNotValid(v, 1)
                  IN  IF it2 # 0
                      THEN [v EXCEPT ![it2] = skill]
                      ELSE IF Len(v) < HEROESMAXSKILL
                           THEN Append(v, skill)
                           ELSE v
    ELSE v

\* AddSkill without the check of the vector's size before the push_back
AddSkillNoLimit(v, skill) ==
    IF isValid(skill)
    THEN LET it == FindIfSkill(v, skill.skill, 1)
         IN  IF it # 0
             THEN [v EXCEPT ![it] = SetLevel(v[it], skill.level)]
             ELSE LET it2 == FindIfNotValid(v, 1)
                  IN  IF it2 # 0
                      THEN [v EXCEPT ![it2] = skill]
                      ELSE Append(v, skill)
    ELSE v

\* SecSkills::AddSkill
AddSkill(v, skill) ==
    IF isValid(skill)
    THEN LET it == FindIfSkill(v, skill.skill, 1)
         IN  IF it # 0
             THEN [v EXCEPT ![it] = SetLevel(v[it], skill.level)]
             ELSE LET it2 == FindIfNotValid(v, 1)
                  IN  IF it2 # 0
                      THEN [v EXCEPT ![it2] = skill]
                      ELSE IF Len(v) < HEROESMAXSKILL
                           THEN Append(v, skill)
                           ELSE v
    ELSE v

(***************************************************************************)
(* SecSkills::SecSkills( int race ): the initial skills of the race's      *)
(* table are added one by one, in the order of the constructor's body.     *)
(***************************************************************************)
ConstructorOrder ==
    << ARCHERY, DIPLOMACY, EAGLEEYE, ESTATES, LOGISTICS, LUCK, MYSTICISM,
       PATHFINDING, LEADERSHIP, BALLISTICS, NAVIGATION, SCOUTING, NECROMANCY, WISDOM,
       OFFENSE, AIRMAGIC, ARMORER, ARTILLERY, EARTHMAGIC, FIREMAGIC, FIRSTAID,
       INTELLIGENCE, LEARNING, RESISTANCE, SCHOLAR, SORCERY, TACTICS, WATERMAGIC >>

\* ptr->initial_secondary of the static race data: the first n skills of the
\* constructor's order carry a level, the others 0
InitialPatterns == {"basic", "expert", "mixed"}

initial_secondary(n, pattern, p) ==
    IF p > n THEN 0
    ELSE CASE pattern = "basic"  -> BASIC
           [] pattern = "expert" -> EXPERT
           [] OTHER              -> ((p - 1) % 3) + 1

RECURSIVE SecSkillsFrom(_, _, _, _)
SecSkillsFrom(v, n, pattern, p) ==
    IF p > Len(ConstructorOrder) THEN v
    ELSE LET lvl == initial_secondary(n, pattern, p)
         IN  SecSkillsFrom(IF lvl # 0 THEN AddSkill(v, Secondary(ConstructorOrder[p], lvl)) ELSE v,
                           n, pattern, p + 1)

SecSkills(n, pattern) == SecSkillsFrom(<< >>, n, pattern, 1)

(***************************************************************************)
(* Static race data (GameStatic::GetSkillStats): the races offered to the  *)
(* planner and the mature_secondary weight each gives a skill.  "NORACE"   *)
(* has no stats record (GetSkillStats returns nullptr).                    *)
(***************************************************************************)
Races == {"NORACE", "ARCHER", "SPARSE", "HEAVY"}

GetSkillStats(race) == race # "NORACE"

mature_secondary(race, skill) ==
    CASE race = "ARCHER" -> (IF skill = ARCHERY THEN 40 ELSE 0)
      [] race = "SPARSE" -> (IF skill \in {ARCHERY, DIPLOMACY, ESTATES, LEADERSHIP, WISDOM} THEN 1 ELSE 0)
      [] race = "HEAVY"  -> (IF skill \in {LOGISTICS, LUCK} THEN 2 ELSE IF skill = SORCERY THEN 1 ELSE 0)
      [] race = "WIDE"   -> (IF skill \in {ARCHERY, DIPLOMACY, ESTATES, LEADERSHIP, WISDOM,
                                           LOGISTICS, LUCK, SORCERY} THEN 1 ELSE 0)
      [] OTHER           -> 0

\* the switch with the fields of Archery and Ballistics taken for each other
SecondaryGetWeightSkillFromRaceSwapped(race, skill) ==
    IF GetSkillStats(race) /\ skill \in PATHFINDING..WATERMAGIC
    THEN mature_secondary(race, IF skill = ARCHERY THEN BALLISTICS
                                ELSE IF skill = BALLISTICS THEN ARCHERY
                                ELSE skill)
    ELSE 0

\* Skill::SecondaryGetWeightSkillFromRace
SecondaryGetWeightSkillFromRace(race, skill) ==
    IF GetSkillStats(race) /\ skill \in PATHFINDING..WATERMAGIC
    THEN mature_secondary(race, skill)
    ELSE 0

(***************************************************************************)
(* Rand::Queue: weighted selection with an explicit seed.                  *)
(***************************************************************************)
\* Rand::Queue::Push
Push(queue, value, percent) == Append(queue, [value |-> value, percent |-> percent])

RECURSIVE TotalPercent(_, _)
TotalPercent(queue, i) ==
    IF i > Len(queue) THEN 0 ELSE queue[i].percent + TotalPercent(queue, i + 1)

\* the seed mapped into 0 .. total - 1
MapSeed(seed, total) == seed % total

\* the first item whose cumulative weight exceeds r
RECURSIVE PickCumulative(_, _, _)
PickCumulative(queue, i, r) ==
    IF i > Len(queue) THEN 0
    ELSE IF r < queue[i].percent THEN queue[i].value
    ELSE PickCumulative(queue, i + 1, r - queue[i].percent)

\* Rand::Queue::GetWithSeed
GetWithSeed(queue, seed) ==
    LET total == TotalPercent(queue, 1)
    IN  IF total = 0 THEN 0 ELSE PickCumulative(queue, 1, MapSeed(seed, total))

(***************************************************************************)
(* The level-up planner.                                                   *)
(***************************************************************************)
\* the skills std::find( exclude.begin(), exclude.end(), skill ) finds
Excluded(exclude) == {exclude[i] : i \in 1..Len(exclude)}

\* the loop of SecondaryPriorityFromRace: every skill of secskills that is not
\* excluded is pushed with its race weight
RECURSIVE PartsFrom(_, _, _, _)
PartsFrom(parts, race, excluded, i) ==
    IF i > Len(secskills) THEN parts
    ELSE PartsFrom(IF secskills[i] \notin excluded
                   THEN Push(parts, secskills[i], SecondaryGetWeightSkillFromRace(race, secskills[i]))
                   ELSE parts,
                   race, excluded, i + 1)

\* Skill::SecondaryPriorityFromRace
SecondaryPriorityFromRace(race, exclude, seed) ==
    LET parts == PartsFrom(<< >>, race, Excluded(exclude), 1)
    IN  IF Len(parts) # 0 THEN GetWithSeed(parts, seed) ELSE UNKNOWN

\* the first loop excluding nothing
ExcludeExpertNothing(v, i) == << >>

\* the first loop comparing with ADVANCED instead of EXPERT
ExcludeExpertAdvanced(v, i) ==
    LET skills == [j \in 1..Len(v) |->
                      IF j >= i /\ v[j].level = ADVANCED THEN v[j].skill ELSE UNKNOWN]
    IN  SelectSeq(skills, LAMBDA skill : skill # UNKNOWN)

\* "exclude for expert": the skill of every entry at level EXPERT
RECURSIVE ExcludeExpert(_, _)
ExcludeExpert(v, i) ==
    IF i > Len(v) THEN << >>
    ELSE (IF v[i].level = EXPERT THEN << v[i].skill >> ELSE << >>) \o ExcludeExpert(v, i + 1)

\* the test of the full vector written with < instead of <=
ExcludeFullStrict(v) ==
    IF HEROESMAXSKILL < Count(v)
    THEN SelectSeq(secskills, LAMBDA skill : NONE = GetLevel(v, skill))
    ELSE << >>

\* the test of the full vector made on size() instead of Count()
ExcludeFullBySize(v) ==
    IF HEROESMAXSKILL <= Len(v)
    THEN SelectSeq(secskills, LAMBDA skill : NONE = GetLevel(v, skill))
    ELSE << >>

\* "exclude is full, add other": with HEROESMAXSKILL valid entries, every skill
\* of secskills whose level in the vector is NONE
ExcludeFull(v) ==
    IF HEROESMAXSKILL <= Count(v)
    THEN SelectSeq(secskills, LAMBDA skill : NONE = GetLevel(v, skill))
    ELSE << >>

\* the exclusion list before the first pick
ExcludeSkills(v) == ExcludeExpert(v, 1) \o ExcludeFull(v)

\* the first pick not pushed to the exclusion list
ExcludeSecondForgotten(exclude, first) == exclude

\* the exclusion list before the second pick
ExcludeSecond(exclude, first) == Append(exclude, first)

\* the picked entry's level not set from the vector before NextLevel
ProposeLevelUnset(v, s) == NextLevel(s)

\* the levels given to a picked entry: its level in the vector, one step up
ProposeLevel(v, s) == NextLevel(SetLevel(s, GetLevel(v, s.skill)))

\* FindSkillsForLevelUp stepping the second entry's own level instead of the
\* level the vector holds for the picked skill
FindSkillsForLevelUpOwnLevel(v, race, seedSkill1, seedSkill2, s1, s2) ==
    LET exclude_skills == ExcludeSkills(v)
        a == SetSkill(s1, SecondaryPriorityFromRace(race, exclude_skills, seedSkill1))
    IN  IF UNKNOWN # a.skill
        THEN LET b == SetSkill(s2, SecondaryPriorityFromRace(race, ExcludeSecond(exclude_skills, a.skill), seedSkill2))
             IN  [sec1 |-> ProposeLevel(v, a), sec2 |-> NextLevel(b)]
        ELSE [sec1 |-> a, sec2 |-> s2]

\* SecSkills::FindSkillsForLevelUp: the values of the two output entries on
\* return, s1 and s2 being their values on entry
FindSkillsForLevelUp(v, race, seedSkill1, seedSkill2, s1, s2) ==
    LET exclude_skills == ExcludeSkills(v)
        a == SetSkill(s1, SecondaryPriorityFromRace(race, exclude_skills, seedSkill1))
    IN  IF UNKNOWN # a.skill
        THEN LET b == SetSkill(s2, SecondaryPriorityFromRace(race, ExcludeSecond(exclude_skills, a.skill), seedSkill2))
             IN  [sec1 |-> ProposeLevel(v, a), sec2 |-> ProposeLevel(v, b)]
        ELSE [sec1 |-> a, sec2 |-> s2]

(***************************************************************************)
(* The state machine: a hero's skills after construction, and the calls    *)
(* made on them.                                                           *)
(***************************************************************************)
NoOp ==
    [op |-> "construct", skill |-> SecondaryDefault, race |-> "NORACE", seed1 |-> 0, seed2 |-> 0,
     in1 |-> SecondaryDefault, in2 |-> SecondaryDefault, before |-> << >>, stream |-> << >>]

NoQuery == [op |-> "none", id |-> 0, hero |-> [isNull |-> TRUE, mastery |-> 0, percents |-> << >>], cost |-> 0]

InitSkills ==
    /\ \E n \in 0..MaxInitSkills, pattern \in InitialPatterns : secs = SecSkills(n, pattern)
    /\ sec1 = SecondaryDefault
    /\ sec2 = SecondaryDefault
    /\ last = NoOp
    /\ calls = 0

NoValuation ==
    [op |-> "none", id |-> 0, armyStrength |-> 0, currentSpellPoints |-> 0, spellPower |-> 0,
     schoolSpellModifier |-> 0, value |-> 0]

NoDecision == [op |-> "none", args |-> << >>, result |-> << >>, rng |-> 0]

PrimaryDefault == [attack |-> 0, defense |-> 0, power |-> 0, knowledge |-> 0]

InitRandIdle ==
    /\ primary = PrimaryDefault
    /\ rng = 0
    /\ decision = NoDecision
    /\ earlier = NoDecision

Init ==
    /\ InitSkills
    /\ query = NoQuery
    /\ valuation = NoValuation
    /\ InitRandIdle

\* a caller adds (or overwrites) a skill
AddSkillCall ==
    /\ calls < MaxCalls
    /\ \E skill \in UNKNOWN..MaxInputSkill, level \in NONE..EXPERT :
          /\ secs' = AddSkill(secs, Secondary(skill, level))
          /\ last' = [NoOp EXCEPT !.op = "AddSkill", !.skill = Secondary(skill, level)]
    /\ calls' = calls + 1
    /\ UNCHANGED <<sec1, sec2>>

\* a caller asks for the level-up proposals, handing in its two entries
FindSkillsForLevelUpCall ==
    /\ calls < MaxCalls
    /\ \E race \in Races, seedSkill1 \in 0..MaxSeed, seedSkill2 \in 0..MaxSeed :
          LET out == FindSkillsForLevelUp(secs, race, seedSkill1, seedSkill2, sec1, sec2)
          IN  /\ sec1' = out.sec1
              /\ sec2' = out.sec2
              /\ last' = [NoOp EXCEPT !.op = "FindSkillsForLevelUp", !.race = race,
                                      !.seed1 = seedSkill1, !.seed2 = seedSkill2,
                                      !.in1 = sec1, !.in2 = sec2]
    /\ calls' = calls + 1
    /\ UNCHANGED secs

AddSkillStep == AddSkillCall /\ UNCHANGED <<spellVars, randVars>>

FindSkillsForLevelUpStep == FindSkillsForLevelUpCall /\ UNCHANGED <<spellVars, randVars>>

Next ==
    \/ AddSkillStep
    \/ FindSkillsForLevelUpStep

Spec == Init /\ [][Next]_vars

(***************************************************************************)
(* One Secondary entry, constructed with any skill and level, under        *)
(* repeated NextLevel calls; last.skill keeps the entry as constructed.    *)
(***************************************************************************)
InitEntry ==
    /\ \E skill \in UNKNOWN..MAXSECONDARYSKILL, level \in NONE..EXPERT :
          /\ sec1 = Secondary(skill, level)
          /\ last = [NoOp EXCEPT !.op = "Secondary", !.skill = Secondary(skill, level)]
    /\ secs = << >>
    /\ sec2 = SecondaryDefault
    /\ calls = 0
    /\ query = NoQuery
    /\ valuation = NoValuation
    /\ InitRandIdle

NextLevelStep ==
    /\ calls < MaxNextLevelCalls
    /\ sec1' = NextLevel(sec1)
    /\ calls' = calls + 1
    /\ UNCHANGED <<secs, sec2, last, spellVars, randVars>>

NextEntry == NextLevelStep

SpecEntry == InitEntry /\ [][NextEntry]_vars

(***************************************************************************)
(* FillMax and the load of a serialized vector.                            *)
(***************************************************************************)
\* FillMax assigning HEROESMAXSKILL copies of skill: assign( HEROESMAXSKILL, skill )
FillMaxAssign(v, skill) ==
    IF Len(v) < HEROESMAXSKILL
    THEN [i \in 1..HEROESMAXSKILL |-> skill]
    ELSE v

\* SecSkills::FillMax: resize( HEROESMAXSKILL, skill ) appends copies of skill
FillMax(v, skill) ==
    IF Len(v) < HEROESMAXSKILL
    THEN v \o [i \in 1..(HEROESMAXSKILL - Len(v)) |-> skill]
    ELSE v

\* operator>>( StreamBase &, Secondary & ): the two integers are taken as read
RawSecondary(skill, level) == [skill |-> skill, level |-> level]

\* the load without the resize of a vector that is too long
LoadUntruncated(v, stream) == stream

\* operator>>( StreamBase &, SecSkills & ): the vector becomes the serialized
\* sequence, cut to HEROESMAXSKILL entries when it is longer
Load(v, stream) ==
    IF Len(stream) > HEROESMAXSKILL
    THEN SubSeq(stream, 1, HEROESMAXSKILL)
    ELSE stream

\* the serialized sequences: entries of distinct skills, one entry repeated,
\* or entries alternating with reset ones
StreamPatterns == {"distinct", "repeat", "gaps"}

stream_entry(pattern, p) ==
    CASE pattern = "distinct" -> RawSecondary(secskills[p], ((p - 1) % 3) + 1)
      [] pattern = "repeat" -> RawSecondary(ARCHERY, BASIC)
      [] OTHER -> IF p % 2 = 1
                  THEN RawSecondary(secskills[p], ADVANCED)
                  ELSE RawSecondary(UNKNOWN, NONE)

Stream(n, pattern) == [p \in 1..n |-> stream_entry(pattern, p)]

(***************************************************************************)
(* The skill vector under AddSkill, FillMax and load, each operation       *)
(* recording the vector it was called on.                                  *)
(***************************************************************************)
StoreAddSkillStep ==
    /\ calls < MaxCalls
    /\ \E skill \in UNKNOWN..MaxInputSkill, level \in NONE..EXPERT :
          /\ secs' = AddSkill(secs, Secondary(skill, level))
          /\ last' = [NoOp EXCEPT !.op = "AddSkill", !.skill = Secondary(skill, level),
                                  !.before = secs]
    /\ calls' = calls + 1
    /\ UNCHANGED <<sec1, sec2, spellVars, randVars>>

FillMaxStep ==
    /\ calls < MaxCalls
    /\ \E skill \in UNKNOWN..MaxInputSkill, level \in NONE..EXPERT :
          /\ secs' = FillMax(secs, Secondary(skill, level))
          /\ last' = [NoOp EXCEPT !.op = "FillMax", !.skill = Secondary(skill, level),
                                  !.before = secs]
    /\ calls' = calls + 1
    /\ UNCHANGED <<sec1, sec2, spellVars, randVars>>

LoadStep ==
    /\ calls < MaxCalls
    /\ \E n \in 0..MaxLoadLen, pattern \in StreamPatterns :
          /\ secs' = Load(secs, Stream(n, pattern))
          /\ last' = [NoOp EXCEPT !.op = "Load", !.before = secs, !.stream = Stream(n, pattern)]
    /\ calls' = calls + 1
    /\ UNCHANGED <<sec1, sec2, spellVars, randVars>>

NextStore ==
    \/ StoreAddSkillStep
    \/ FillMaxStep
    \/ LoadStep

SpecStore == Init /\ [][NextStore]_vars

(***************************************************************************)
(* A level-up after a scripted setup: the constructed vector is padded by  *)
(* FillMax or left as it is, FindSkillsForLevelUp fills the two entries,   *)
(* and one of them is added with AddSkill.                                 *)
(***************************************************************************)
ScriptFillMaxStep ==
    /\ last.op = "construct"
    /\ FillMaxStep

ProposeStep ==
    /\ last.op \in {"construct", "FillMax"}
    /\ FindSkillsForLevelUpCall
    /\ UNCHANGED <<spellVars, randVars>>

LearnStep ==
    /\ last.op = "FindSkillsForLevelUp"
    /\ \E skill \in {sec1, sec2} :
          /\ secs' = AddSkill(secs, skill)
          /\ last' = [last EXCEPT !.op = "AddSkill", !.skill = skill, !.before = secs]
    /\ calls' = calls + 1
    /\ UNCHANGED <<sec1, sec2, spellVars, randVars>>

NextLevelUp ==
    \/ ScriptFillMaxStep
    \/ ProposeStep
    \/ LearnStep

SpecLevelUp == Init /\ [][NextLevelUp]_vars

(***************************************************************************)
(* The progression of a hero: from the constructed vector on, each round   *)
(* calls FindSkillsForLevelUp for the hero's race with the same two        *)
(* entries and, when the call made a valid proposal, adds one of them with *)
(* AddSkill.  calls counts the proposals added.                            *)
(***************************************************************************)
\* the races of the heroes followed: those of Races and one that gives a
\* weight to eight skills
ProgressRaces == Races \cup {"WIDE"}

ProgressProposeStep ==
    /\ calls < MaxRounds
    /\ \E race \in ProgressRaces, seedSkill1 \in 0..MaxProgressSeed, seedSkill2 \in 0..MaxProgressSeed :
          LET out == FindSkillsForLevelUp(secs, race, seedSkill1, seedSkill2, sec1, sec2)
          IN  /\ last.op # "construct" => race = last.race
              /\ sec1' = out.sec1
              /\ sec2' = out.sec2
              /\ last' = [NoOp EXCEPT !.op = "FindSkillsForLevelUp", !.race = race,
                                      !.seed1 = seedSkill1, !.seed2 = seedSkill2,
                                      !.before = secs]
    /\ UNCHANGED <<secs, calls, spellVars, randVars>>

ProgressLearnStep ==
    /\ calls < MaxRounds
    /\ last.op = "FindSkillsForLevelUp"
    /\ sec1.skill # UNKNOWN
    /\ \E skill \in {sec1, sec2} :
          /\ isValid(skill)
          /\ secs' = AddSkill(secs, skill)
          /\ last' = [NoOp EXCEPT !.op = "AddSkill", !.race = last.race, !.skill = skill,
                                  !.before = secs]
    /\ calls' = calls + 1
    /\ UNCHANGED <<sec1, sec2, spellVars, randVars>>

NextProgress ==
    \/ ProgressProposeStep
    \/ ProgressLearnStep

SpecProgress == Init /\ [][NextProgress]_vars

(***************************************************************************)
(* Spell ids, in the order of the rows of the spells[] table.  Spell::NONE *)
(* is 0, as Skill::Level::NONE is.                                         *)
(***************************************************************************)
FIREBALL == 1
FIREBLAST == 2
LIGHTNINGBOLT == 3
CHAINLIGHTNING == 4
TELEPORT == 5
CURE == 6
MASSCURE == 7
RESURRECT == 8
RESURRECTTRUE == 9
HASTE == 10
MASSHASTE == 11
SLOW == 12
MASSSLOW == 13
BLIND == 14
BLESS == 15
MASSBLESS == 16
STONESKIN == 17
STEELSKIN == 18
CURSE == 19
MASSCURSE == 20
HOLYWORD == 21
HOLYSHOUT == 22
ANTIMAGIC == 23
DISPEL == 24
MASSDISPEL == 25
ARROW == 26
BERSERKER == 27
ARMAGEDDON == 28
ELEMENTALSTORM == 29
METEORSHOWER == 30
PARALYZE == 31
HYPNOTIZE == 32
COLDRAY == 33
COLDRING == 34
DISRUPTINGRAY == 35
DEATHRIPPLE == 36
DEATHWAVE == 37
DRAGONSLAYER == 38
BLOODLUST == 39
ANIMATEDEAD == 40
MIRRORIMAGE == 41
SHIELD == 42
MASSSHIELD == 43
SUMMONEELEMENT == 44
SUMMONAELEMENT == 45
SUMMONFELEMENT == 46
SUMMONWELEMENT == 47
EARTHQUAKE == 48
VIEWMINES == 49
VIEWRESOURCES == 50
VIEWARTIFACTS == 51
VIEWTOWNS == 52
VIEWHEROES == 53
VIEWALL == 54
IDENTIFYHERO == 55
SUMMONBOAT == 56
DIMENSIONDOOR == 57
TOWNGATE == 58
TOWNPORTAL == 59
VISIONS == 60
HAUNT == 61
SETEGUARDIAN == 62
SETAGUARDIAN == 63
SETFGUARDIAN == 64
SETWGUARDIAN == 65
RANDOM == 66
RANDOM1 == 67
RANDOM2 == 68
RANDOM3 == 69
RANDOM4 == 70
RANDOM5 == 71
PETRIFY == 72

SPELL_COUNT == 73

\* spellstats_t spells[]: the row of spell id is spells[id + 1]
spells == <<
    [name |-> "Unknown", schoolOfMagic |-> "NO_SCHOOL", spellPoints |-> 0, spellPointsDiscounts |-> <<0, 0, 0, 0>>, schoolLevelMod |-> <<0, 0, 0, 0>>, movePoints |-> 0, minMovePoints |-> 0, extraValue |-> 0],
    [name |-> "Fireball", schoolOfMagic |-> "FIRE_MAGIC", spellPoints |-> 9, spellPointsDiscounts |-> <<0, 2, 2, 2>>, schoolLevelMod |-> <<0, 10, 20, 50>>, movePoints |-> 0, minMovePoints |-> 0, extraValue |-> 10],
    [name |-> "Fireblast", schoolOfMagic |-> "FIRE_MAGIC", spellPoints |-> 15, spellPointsDiscounts |-> <<0, 3, 3, 3>>, schoolLevelMod |-> <<0, 15, 30, 60>>, movePoints |-> 0, minMovePoints |-> 0, extraValue |-> 10],
    [name |-> "Lightning Bolt", schoolOfMagic |-> "AIR_MAGIC", spellPoints |-> 10, spellPointsDiscounts |-> <<0, 3, 3, 3>>, schoolLevelMod |-> <<0, 10, 20, 50>>, movePoints |-> 0, minMovePoints |-> 0, extraValue |-> 25],
    [name |-> "Chain Lightning", schoolOfMagic |-> "AIR_MAGIC", spellPoints |-> 24, spellPointsDiscounts |-> <<0, 4, 4, 4>>, schoolLevelMod |-> <<0, 25, 50, 100>>, movePoints |-> 0, minMovePoints |-> 0, extraValue |-> 40],
    [name |-> "Teleport", schoolOfMagic |-> "WATER_MAGIC", spellPoints |-> 15, spellPointsDiscounts |-> <<0, 3, 9, 12>>, schoolLevelMod |-> <<0, 0, 0, 0>>, movePoints |-> 0, minMovePoints |-> 0, extraValue |-> 0],
    [name |-> "Cure", schoolOfMagic |-> "WATER_MAGIC", spellPoints |-> 6, spellPointsDiscounts |-> <<0, 1, 1, 1>>, schoolLevelMod |-> <<0, 10, 20, 30>>, movePoints |-> 0, minMovePoints |-> 0, extraValue |-> 5],
    [name |-> "Mass Cure", schoolOfMagic |-> "WATER_MAGIC", spellPoints |-> 15, spellPointsDiscounts |-> <<0, 5, 5, 5>>, schoolLevelMod |-> <<0, 6, 14, 24>>, movePoints |-> 0, minMovePoints |-> 0, extraValue |-> 5],
    [name |-> "Resurrect", schoolOfMagic |-> "EARTH_MAGIC", spellPoints |-> 12, spellPointsDiscounts |-> <<0, 4, 4, 4>>, schoolLevelMod |-> <<0, 10, 20, 30>>, movePoints |-> 0, minMovePoints |-> 0, extraValue |-> 50],
    [name |-> "Resurrect True", schoolOfMagic |-> "EARTH_MAGIC", spellPoints |-> 20, spellPointsDiscounts |-> <<0, 4, 4, 4>>, schoolLevelMod |-> <<0, 20, 40, 50>>, movePoints |-> 0, minMovePoints |-> 0, extraValue |-> 50],
    [name |-> "Haste", schoolOfMagic |-> "AIR_MAGIC", spellPoints |-> 6, spellPointsDiscounts |-> <<0, 1, 1, 1>>, schoolLevelMod |-> <<0, 1, 1, 2>>, movePoints |-> 0, minMovePoints |-> 0, extraValue |-> 2],
    [name |-> "Mass Haste", schoolOfMagic |-> "AIR_MAGIC", spellPoints |-> 10, spellPointsDiscounts |-> <<0, 2, 2, 2>>, schoolLevelMod |-> <<0, 0, 1, 1>>, movePoints |-> 0, minMovePoints |-> 0, extraValue |-> 2],
    [name |-> "Slow", schoolOfMagic |-> "EARTH_MAGIC", spellPoints |-> 6, spellPointsDiscounts |-> <<0, 1, 1, 1>>, schoolLevelMod |-> <<0, 0, 1, 2>>, movePoints |-> 0, minMovePoints |-> 0, extraValue |-> 0],
    [name |-> "Mass Slow", schoolOfMagic |-> "EARTH_MAGIC", spellPoints |-> 15, spellPointsDiscounts |-> <<0, 3, 3, 3>>, schoolLevelMod |-> <<0, 0, 1, 1>>, movePoints |-> 0, minMovePoints |-> 0, extraValue |-> 0],
    [name |-> "Blind", schoolOfMagic |-> "FIRE_MAGIC", spellPoints |-> 10, spellPointsDiscounts |-> <<0, 2, 2, 2>>, schoolLevelMod |-> <<0, 0, 0, 0>>, movePoints |-> 0, minMovePoints |-> 0, extraValue |-> 0],
    [name |-> "Bless", schoolOfMagic |-> "WATER_MAGIC", spellPoints |-> 5, spellPointsDiscounts |-> <<0, 1, 1, 1>>, schoolLevelMod |-> <<0, 0, 1, 2>>, movePoints |-> 0, minMovePoints |-> 0, extraValue |-> 0],
    [name |-> "Mass Bless", schoolOfMagic |-> "WATER_MAGIC", spellPoints |-> 12, spellPointsDiscounts |-> <<0, 3, 3, 3>>, schoolLevelMod |-> <<0, 0, 1, 1>>, movePoints |-> 0, minMovePoints |-> 0, extraValue |-> 0],
    [name |-> "Stoneskin", schoolOfMagic |-> "EARTH_MAGIC", spellPoints |-> 3, spellPointsDiscounts |-> <<0, 1, 1, 1>>, schoolLevelMod |-> <<0, 0, 1, 2>>, movePoints |-> 0, minMovePoints |-> 0, extraValue |-> 3],
    [name |-> "Steelskin", schoolOfMagic |-> "EARTH_MAGIC", spellPoints |-> 6, spellPointsDiscounts |-> <<0, 2, 2, 2>>, schoolLevelMod |-> <<0, 0, 2, 3>>, movePoints |-> 0, minMovePoints |-> 0, extraValue |-> 5],
    [name |-> "Curse", schoolOfMagic |-> "FIRE_MAGIC", spellPoints |-> 6, spellPointsDiscounts |-> <<0, 1, 1, 1>>, schoolLevelMod |-> <<0, 0, 1, 2>>, movePoints |-> 0, minMovePoints |-> 0, extraValue |-> 0],
    [name |-> "Mass Curse", schoolOfMagic |-> "FIRE_MAGIC", spellPoints |-> 12, spellPointsDiscounts |-> <<0, 2, 2, 2>>, schoolLevelMod |-> <<0, 0, 1, 1>>, movePoints |-> 0, minMovePoints |-> 0, extraValue |-> 0],
    [name |-> "Holy Word", schoolOfMagic |-> "AIR_MAGIC", spellPoints |-> 12, spellPointsDiscounts |-> <<0, 3, 3, 3>>, schoolLevelMod |-> <<0, 3, 3, 3>>, movePoints |-> 0, minMovePoints |-> 0, extraValue |-> 10],
    [name |-> "Holy Shout", schoolOfMagic |-> "AIR_MAGIC", spellPoints |-> 15, spellPointsDiscounts |-> <<0, 3, 3, 3>>, schoolLevelMod |-> <<0, 3, 3, 3>>, movePoints |-> 0, minMovePoints |-> 0, extraValue |-> 20],
    [name |-> "Anti-Magic", schoolOfMagic |-> "EARTH_MAGIC", spellPoints |-> 15, spellPointsDiscounts |-> <<0, 3, 3, 3>>, schoolLevelMod |-> <<0, 0, 1, 2>>, movePoints |-> 0, minMovePoints |-> 0, extraValue |-> 0],
    [name |-> "Dispel Magic", schoolOfMagic |-> "WATER_MAGIC", spellPoints |-> 5, spellPointsDiscounts |-> <<0, 1, 1, 1>>, schoolLevelMod |-> <<0, 0, 0, 0>>, movePoints |-> 0, minMovePoints |-> 0, extraValue |-> 0],
    [name |-> "Mass Dispel", schoolOfMagic |-> "WATER_MAGIC", spellPoints |-> 12, spellPointsDiscounts |-> <<0, 3, 3, 3>>, schoolLevelMod |-> <<0, 0, 0, 0>>, movePoints |-> 0, minMovePoints |-> 0, extraValue |-> 0],
    [name |-> "Magic Arrow", schoolOfMagic |-> "AIR_MAGIC", spellPoints |-> 3, spellPointsDiscounts |-> <<0, 1, 1, 1>>, schoolLevelMod |-> <<0, 10, 20, 30>>, movePoints |-> 0, minMovePoints |-> 0, extraValue |-> 10],
    [name |-> "Berserker", schoolOfMagic |-> "FIRE_MAGIC", spellPoints |-> 12, spellPointsDiscounts |-> <<0, 4, 4, 4>>, schoolLevelMod |-> <<0, 0, 0, 0>>, movePoints |-> 0, minMovePoints |-> 0, extraValue |-> 0],
    [name |-> "Armageddon", schoolOfMagic |-> "FIRE_MAGIC", spellPoints |-> 24, spellPointsDiscounts |-> <<0, 4, 4, 4>>, schoolLevelMod |-> <<0, 10, 40, 80>>, movePoints |-> 0, minMovePoints |-> 0, extraValue |-> 50],
    [name |-> "Elemental Storm", schoolOfMagic |-> "FIRE_MAGIC", spellPoints |-> 20, spellPointsDiscounts |-> <<0, 5, 5, 5>>, schoolLevelMod |-> <<0, 20, 50, 60>>, movePoints |-> 0, minMovePoints |-> 0, extraValue |-> 25],
    [name |-> "Meteor Shower", schoolOfMagic |-> "EARTH_MAGIC", spellPoints |-> 16, spellPointsDiscounts |-> <<0, 4, 4, 4>>, schoolLevelMod |-> <<0, 20, 40, 70>>, movePoints |-> 0, minMovePoints |-> 0, extraValue |-> 25],
    [name |-> "Paralyze", schoolOfMagic |-> "FIRE_MAGIC", spellPoints |-> 9, spellPointsDiscounts |-> <<0, 3, 3, 3>>, schoolLevelMod |-> <<0, 0, 0, 0>>, movePoints |-> 0, minMovePoints |-> 0, extraValue |-> 0],
    [name |-> "Hypnotize", schoolOfMagic |-> "AIR_MAGIC", spellPoints |-> 18, spellPointsDiscounts |-> <<0, 3, 3, 3>>, schoolLevelMod |-> <<0, 10, 20, 50>>, movePoints |-> 0, minMovePoints |-> 0, extraValue |-> 25],
    [name |-> "Cold Ray", schoolOfMagic |-> "WATER_MAGIC", spellPoints |-> 8, spellPointsDiscounts |-> <<0, 2, 2, 2>>, schoolLevelMod |-> <<0, 10, 20, 50>>, movePoints |-> 0, minMovePoints |-> 0, extraValue |-> 20],
    [name |-> "Cold Ring", schoolOfMagic |-> "WATER_MAGIC", spellPoints |-> 9, spellPointsDiscounts |-> <<0, 3, 3, 3>>, schoolLevelMod |-> <<0, 15, 30, 60>>, movePoints |-> 0, minMovePoints |-> 0, extraValue |-> 10],
    [name |-> "Disrupting Ray", schoolOfMagic |-> "EARTH_MAGIC", spellPoints |-> 7, spellPointsDiscounts |-> <<0, 2, 2, 2>>, schoolLevelMod |-> <<0, 0, 1, 2>>, movePoints |-> 0, minMovePoints |-> 0, extraValue |-> 3],
    [name |-> "Death Ripple", schoolOfMagic |-> "EARTH_MAGIC", spellPoints |-> 6, spellPointsDiscounts |-> <<0, 1, 1, 1>>, schoolLevelMod |-> <<0, 0, 5, 10>>, movePoints |-> 0, minMovePoints |-> 0, extraValue |-> 5],
    [name |-> "Death Wave", schoolOfMagic |-> "EARTH_MAGIC", spellPoints |-> 10, spellPointsDiscounts |-> <<0, 2, 2, 2>>, schoolLevelMod |-> <<0, 10, 20, 30>>, movePoints |-> 0, minMovePoints |-> 0, extraValue |-> 10],
    [name |-> "Dragon Slayer", schoolOfMagic |-> "FIRE_MAGIC", spellPoints |-> 6, spellPointsDiscounts |-> <<0, 1, 1, 1>>, schoolLevelMod |-> <<0, 10, 20, 30>>, movePoints |-> 0, minMovePoints |-> 0, extraValue |-> 5],
    [name |-> "Blood Lust", schoolOfMagic |-> "FIRE_MAGIC", spellPoints |-> 5, spellPointsDiscounts |-> <<0, 1, 1, 1>>, schoolLevelMod |-> <<0, 0, 1, 2>>, movePoints |-> 0, minMovePoints |-> 0, extraValue |-> 3],
    [name |-> "Animate Dead", schoolOfMagic |-> "EARTH_MAGIC", spellPoints |-> 15, spellPointsDiscounts |-> <<0, 3, 3, 3>>, schoolLevelMod |-> <<0, 10, 40, 70>>, movePoints |-> 0, minMovePoints |-> 0, extraValue |-> 50],
    [name |-> "Mirror Image", schoolOfMagic |-> "WATER_MAGIC", spellPoints |-> 25, spellPointsDiscounts |-> <<0, 5, 5, 5>>, schoolLevelMod |-> <<0, 4, 5, 6>>, movePoints |-> 0, minMovePoints |-> 0, extraValue |-> 0],
    [name |-> "Shield", schoolOfMagic |-> "EARTH_MAGIC", spellPoints |-> 5, spellPointsDiscounts |-> <<0, 2, 2, 2>>, schoolLevelMod |-> <<0, 1, 2, 2>>, movePoints |-> 0, minMovePoints |-> 0, extraValue |-> 2],
    [name |-> "Mass Shield", schoolOfMagic |-> "EARTH_MAGIC", spellPoints |-> 7, spellPointsDiscounts |-> <<0, 2, 2, 2>>, schoolLevelMod |-> <<0, 0, 1, 1>>, movePoints |-> 0, minMovePoints |-> 0, extraValue |-> 0],
    [name |-> "Summon Earth Elemental", schoolOfMagic |-> "EARTH_MAGIC", spellPoints |-> 30, spellPointsDiscounts |-> <<0, 10, 10, 10>>, schoolLevelMod |-> <<0, 20, 50, 80>>, movePoints |-> 0, minMovePoints |-> 0, extraValue |-> 3],
    [name |-> "Summon Air Elemental", schoolOfMagic |-> "AIR_MAGIC", spellPoints |-> 30, spellPointsDiscounts |-> <<0, 10, 10, 10>>, schoolLevelMod |-> <<0, 20, 50, 80>>, movePoints |-> 0, minMovePoints |-> 0, extraValue |-> 3],
    [name |-> "Summon Fire Elemental", schoolOfMagic |-> "FIRE_MAGIC", spellPoints |-> 30, spellPointsDiscounts |-> <<0, 10, 10, 10>>, schoolLevelMod |-> <<0, 20, 50, 80>>, movePoints |-> 0, minMovePoints |-> 0, extraValue |-> 3],
    [name |-> "Summon Water Elemental", schoolOfMagic |-> "WATER_MAGIC", spellPoints |-> 30, spellPointsDiscounts |-> <<0, 10, 10, 10>>, schoolLevelMod |-> <<0, 20, 50, 80>>, movePoints |-> 0, minMovePoints |-> 0, extraValue |-> 3],
    [name |-> "Earthquake", schoolOfMagic |-> "EARTH_MAGIC", spellPoints |-> 15, spellPointsDiscounts |-> <<0, 5, 5, 5>>, schoolLevelMod |-> <<0, 0, 1, 2>>, movePoints |-> 0, minMovePoints |-> 0, extraValue |-> 0],
    [name |-> "View Mines", schoolOfMagic |-> "EARTH_MAGIC", spellPoints |-> 1, spellPointsDiscounts |-> <<0, 1, 1, 1>>, schoolLevelMod |-> <<0, 0, 0, 0>>, movePoints |-> 0, minMovePoints |-> 0, extraValue |-> 0],
    [name |-> "View Resources", schoolOfMagic |-> "EARTH_MAGIC", spellPoints |-> 1, spellPointsDiscounts |-> <<0, 1, 1, 1>>, schoolLevelMod |-> <<0, 0, 0, 0>>, movePoints |-> 0, minMovePoints |-> 0, extraValue |-> 0],
    [name |-> "View Artifacts", schoolOfMagic |-> "AIR_MAGIC", spellPoints |-> 2, spellPointsDiscounts |-> <<0, 1, 1, 1>>, schoolLevelMod |-> <<0, 0, 0, 0>>, movePoints |-> 0, minMovePoints |-> 0, extraValue |-> 0],
    [name |-> "View Towns", schoolOfMagic |-> "AIR_MAGIC", spellPoints |-> 2, spellPointsDiscounts |-> <<0, 1, 1, 1>>, schoolLevelMod |-> <<0, 0, 0, 0>>, movePoints |-> 0, minMovePoints |-> 0, extraValue |-> 0],
    [name |-> "View Heroes", schoolOfMagic |-> "AIR_MAGIC", spellPoints |-> 2, spellPointsDiscounts |-> <<0, 1, 1, 1>>, schoolLevelMod |-> <<0, 0, 0, 0>>, movePoints |-> 0, minMovePoints |-> 0, extraValue |-> 0],
    [name |-> "View All", schoolOfMagic |-> "AIR_MAGIC", spellPoints |-> 3, spellPointsDiscounts |-> <<0, 1, 1, 1>>, schoolLevelMod |-> <<0, 0, 0, 0>>, movePoints |-> 0, minMovePoints |-> 0, extraValue |-> 0],
    [name |-> "Identify Hero", schoolOfMagic |-> "WATER_MAGIC", spellPoints |-> 3, spellPointsDiscounts |-> <<0, 2, 2, 2>>, schoolLevelMod |-> <<0, 0, 0, 0>>, movePoints |-> 0, minMovePoints |-> 0, extraValue |-> 0],
    [name |-> "Summon Boat", schoolOfMagic |-> "WATER_MAGIC", spellPoints |-> 5, spellPointsDiscounts |-> <<0, 3, 3, 3>>, schoolLevelMod |-> <<0, 0, 0, 0>>, movePoints |-> 0, minMovePoints |-> 0, extraValue |-> 0],
    [name |-> "Dimension Door", schoolOfMagic |-> "AIR_MAGIC", spellPoints |-> 10, spellPointsDiscounts |-> <<0, 0, 0, 0>>, schoolLevelMod |-> <<0, 0, 0, 0>>, movePoints |-> 225, minMovePoints |-> 69, extraValue |-> 0],
    [name |-> "Town Gate", schoolOfMagic |-> "EARTH_MAGIC", spellPoints |-> 10, spellPointsDiscounts |-> <<0, 0, 0, 0>>, schoolLevelMod |-> <<0, 0, 0, 0>>, movePoints |-> 225, minMovePoints |-> 69, extraValue |-> 0],
    [name |-> "Town Portal", schoolOfMagic |-> "EARTH_MAGIC", spellPoints |-> 20, spellPointsDiscounts |-> <<0, 0, 0, 0>>, schoolLevelMod |-> <<0, 0, 0, 0>>, movePoints |-> 225, minMovePoints |-> 69, extraValue |-> 0],
    [name |-> "Visions", schoolOfMagic |-> "AIR_MAGIC", spellPoints |-> 6, spellPointsDiscounts |-> <<0, 0, 0, 0>>, schoolLevelMod |-> <<0, 0, 0, 0>>, movePoints |-> 0, minMovePoints |-> 0, extraValue |-> 3],
    [name |-> "Haunt", schoolOfMagic |-> "NO_SCHOOL", spellPoints |-> 8, spellPointsDiscounts |-> <<0, 0, 0, 0>>, schoolLevelMod |-> <<0, 0, 0, 0>>, movePoints |-> 0, minMovePoints |-> 0, extraValue |-> 4],
    [name |-> "Set Earth Guardian", schoolOfMagic |-> "EARTH_MAGIC", spellPoints |-> 15, spellPointsDiscounts |-> <<0, 5, 5, 5>>, schoolLevelMod |-> <<0, 40, 60, 90>>, movePoints |-> 0, minMovePoints |-> 0, extraValue |-> 4],
    [name |-> "Set Air Guardian", schoolOfMagic |-> "AIR_MAGIC", spellPoints |-> 15, spellPointsDiscounts |-> <<0, 5, 5, 5>>, schoolLevelMod |-> <<0, 40, 60, 90>>, movePoints |-> 0, minMovePoints |-> 0, extraValue |-> 4],
    [name |-> "Set Fire Guardian", schoolOfMagic |-> "FIRE_MAGIC", spellPoints |-> 15, spellPointsDiscounts |-> <<0, 5, 5, 5>>, schoolLevelMod |-> <<0, 40, 60, 90>>, movePoints |-> 0, minMovePoints |-> 0, extraValue |-> 4],
    [name |-> "Set Water Guardian", schoolOfMagic |-> "WATER_MAGIC", spellPoints |-> 15, spellPointsDiscounts |-> <<0, 5, 5, 5>>, schoolLevelMod |-> <<0, 40, 60, 90>>, movePoints |-> 0, minMovePoints |-> 0, extraValue |-> 4],
    [name |-> "Random", schoolOfMagic |-> "NO_SCHOOL", spellPoints |-> 1, spellPointsDiscounts |-> <<0, 0, 0, 0>>, schoolLevelMod |-> <<0, 0, 0, 0>>, movePoints |-> 0, minMovePoints |-> 0, extraValue |-> 0],
    [name |-> "Random 1", schoolOfMagic |-> "NO_SCHOOL", spellPoints |-> 1, spellPointsDiscounts |-> <<0, 0, 0, 0>>, schoolLevelMod |-> <<0, 0, 0, 0>>, movePoints |-> 0, minMovePoints |-> 0, extraValue |-> 0],
    [name |-> "Random 2", schoolOfMagic |-> "NO_SCHOOL", spellPoints |-> 1, spellPointsDiscounts |-> <<0, 0, 0, 0>>, schoolLevelMod |-> <<0, 0, 0, 0>>, movePoints |-> 0, minMovePoints |-> 0, extraValue |-> 0],
    [name |-> "Random 3", schoolOfMagic |-> "NO_SCHOOL", spellPoints |-> 1, spellPointsDiscounts |-> <<0, 0, 0, 0>>, schoolLevelMod |-> <<0, 0, 0, 0>>, movePoints |-> 0, minMovePoints |-> 0, extraValue |-> 0],
    [name |-> "Random 4", schoolOfMagic |-> "NO_SCHOOL", spellPoints |-> 1, spellPointsDiscounts |-> <<0, 0, 0, 0>>, schoolLevelMod |-> <<0, 0, 0, 0>>, movePoints |-> 0, minMovePoints |-> 0, extraValue |-> 0],
    [name |-> "Random 5", schoolOfMagic |-> "NO_SCHOOL", spellPoints |-> 1, spellPointsDiscounts |-> <<0, 0, 0, 0>>, schoolLevelMod |-> <<0, 0, 0, 0>>, movePoints |-> 0, minMovePoints |-> 0, extraValue |-> 0],
    [name |-> "Petrification", schoolOfMagic |-> "NO_SCHOOL", spellPoints |-> 1, spellPointsDiscounts |-> <<0, 0, 0, 0>>, schoolLevelMod |-> <<0, 0, 0, 0>>, movePoints |-> 0, minMovePoints |-> 0, extraValue |-> 0]
>>

(***************************************************************************)
(* Spell classification used by the cost calculation.                      *)
(***************************************************************************)
\* Spell::isMindInfluence
isMindInfluence(id) == id \in {BLIND, PARALYZE, BERSERKER, HYPNOTIZE}

\* the switch whose default branch takes every spell for a mind-influence one
ArtifactBonusTypeDefaultMind(id) ==
    CASE id \in {BLESS, MASSBLESS} -> "BLESS_SPELL_COST_REDUCTION_PERCENT"
      [] id \in {SUMMONEELEMENT, SUMMONAELEMENT, SUMMONFELEMENT, SUMMONWELEMENT} ->
            "SUMMONING_SPELL_COST_REDUCTION_PERCENT"
      [] id \in {CURSE, MASSCURSE} -> "CURSE_SPELL_COST_REDUCTION_PERCENT"
      [] OTHER -> "MIND_INFLUENCE_SPELL_COST_REDUCTION_PERCENT"

\* the switch of Spell::spellPoints choosing the artifact bonus type
ArtifactBonusType(id) ==
    CASE id \in {BLESS, MASSBLESS} -> "BLESS_SPELL_COST_REDUCTION_PERCENT"
      [] id \in {SUMMONEELEMENT, SUMMONAELEMENT, SUMMONFELEMENT, SUMMONWELEMENT} ->
            "SUMMONING_SPELL_COST_REDUCTION_PERCENT"
      [] id \in {CURSE, MASSCURSE} -> "CURSE_SPELL_COST_REDUCTION_PERCENT"
      [] OTHER -> IF isMindInfluence(id)
                  THEN "MIND_INFLUENCE_SPELL_COST_REDUCTION_PERCENT"
                  ELSE "NONE"

(***************************************************************************)
(* The caster: its mastery level (0..3) in the spell's school and the      *)
(* ordered percentages its artifacts give for the spell's bonus type.      *)
(***************************************************************************)
nullptr == [isNull |-> TRUE, mastery |-> 0, percents |-> << >>]

\* HeroBase::GetSpellCostReduction: the spell's scheduled discount at the
\* caster's mastery level
GetSpellCostReduction(hero, id) == spells[id + 1].spellPointsDiscounts[hero.mastery + 1]

\* BagArtifacts::getTotalArtifactMultipliedPercent
getTotalArtifactMultipliedPercent(hero, type) == hero.percents

\* int32_t division of C++: the quotient is truncated towards zero
DivInt32(a, b) == IF a >= 0 THEN a \div b ELSE -((-a) \div b)

\* conversion of an int32_t to the uint32_t the function returns: a value that
\* is not negative is kept; a negative one wraps to 2^32 + x, which is above
\* every 32-bit signed integer and is represented by the largest of them
ToUint32(x) == IF x >= 0 THEN x ELSE 2147483647

\* the percentages summed and applied once
ReduceBySum(spellCost, percents, i) ==
    LET sum[j \in 1..(Len(percents) + 1)] ==
            IF j > Len(percents) THEN 0 ELSE percents[j] + sum[j + 1]
    IN  DivInt32(spellCost * (100 - sum[i]), 100)

\* the loop over the percentages: spellCost = spellCost * ( 100 - value ) / 100
RECURSIVE ReduceByPercent(_, _, _)
ReduceByPercent(spellCost, percents, i) ==
    IF i > Len(percents) THEN spellCost
    ELSE ReduceByPercent(DivInt32(spellCost * (100 - percents[i]), 100), percents, i + 1)

\* spellPoints taking the school discount off twice
spellPointsDiscountTwice(id, hero) ==
    IF hero.isNull
    THEN spells[id + 1].spellPoints
    ELSE LET type == ArtifactBonusType(id)
             spellCost == spells[id + 1].spellPoints - 2 * GetSpellCostReduction(hero, id)
         IN  IF type = "NONE"
             THEN ToUint32(spellCost)
             ELSE LET reduced == ReduceByPercent(spellCost,
                                                 getTotalArtifactMultipliedPercent(hero, type), 1)
                  IN  IF reduced < 1 THEN 1 ELSE ToUint32(reduced)

\* Spell::spellPoints
spellPoints(id, hero) ==
    IF hero.isNull
    THEN spells[id + 1].spellPoints
    ELSE LET type == ArtifactBonusType(id)
             spellCost == spells[id + 1].spellPoints - GetSpellCostReduction(hero, id)
         IN  IF type = "NONE"
             THEN ToUint32(spellCost)
             ELSE LET reduced == ReduceByPercent(spellCost,
                                                 getTotalArtifactMultipliedPercent(hero, type), 1)
                  IN  IF reduced < 1 THEN 1 ELSE ToUint32(reduced)

(***************************************************************************)
(* The spell cost queries: any spell of the table, without a caster or     *)
(* with any caster.                                                        *)
(***************************************************************************)
PercentValues == {0, 50, 99, 100}

PercentLists == UNION {[1..n -> PercentValues] : n \in 0..MaxArtifacts}

Heroes == {[isNull |-> FALSE, mastery |-> m, percents |-> ps] : m \in 0..3, ps \in PercentLists}

InitSpells ==
    /\ secs = << >>
    /\ sec1 = SecondaryDefault
    /\ sec2 = SecondaryDefault
    /\ last = NoOp
    /\ calls = 0
    /\ query = NoQuery
    /\ valuation = NoValuation
    /\ InitRandIdle

spellPointsStep ==
    /\ calls < MaxQueries
    /\ \E id \in 0..(SPELL_COUNT - 1), hero \in Heroes \cup {nullptr} :
          query' = [op |-> "spellPoints", id |-> id, hero |-> hero, cost |-> spellPoints(id, hero)]
    /\ calls' = calls + 1
    /\ UNCHANGED <<secs, sec1, sec2, last, valuation, randVars>>

NextSpells == spellPointsStep

SpecSpells == InitSpells /\ [][NextSpells]_vars

(***************************************************************************)
(* Spell levels and the combat / adventure classification.                 *)
(***************************************************************************)
\* Spell::Level
Level(id) ==
    CASE id \in {BLESS, BLOODLUST, CURE, CURSE, DISPEL, HASTE, ARROW, SHIELD, SLOW, STONESKIN,
                 VIEWMINES, VIEWRESOURCES} -> 1
      [] id \in {BLIND, COLDRAY, DEATHRIPPLE, DISRUPTINGRAY, DRAGONSLAYER, LIGHTNINGBOLT,
                 STEELSKIN, HAUNT, SUMMONBOAT, VIEWARTIFACTS, VISIONS} -> 2
      [] id \in {ANIMATEDEAD, ANTIMAGIC, COLDRING, DEATHWAVE, EARTHQUAKE, FIREBALL, HOLYWORD,
                 MASSBLESS, MASSCURSE, MASSDISPEL, MASSHASTE, PARALYZE, TELEPORT,
                 IDENTIFYHERO, VIEWHEROES, VIEWTOWNS} -> 3
      [] id \in {BERSERKER, CHAINLIGHTNING, ELEMENTALSTORM, FIREBLAST, HOLYSHOUT, MASSCURE,
                 MASSSHIELD, MASSSLOW, METEORSHOWER, RESURRECT, SETEGUARDIAN, SETAGUARDIAN,
                 SETFGUARDIAN, SETWGUARDIAN, TOWNGATE, VIEWALL} -> 4
      [] id \in {ARMAGEDDON, HYPNOTIZE, MIRRORIMAGE, RESURRECTTRUE, SUMMONEELEMENT,
                 SUMMONAELEMENT, SUMMONFELEMENT, SUMMONWELEMENT, DIMENSIONDOOR, TOWNPORTAL} -> 5
      [] OTHER -> 0

\* Spell::isCombat
isCombat(id) ==
    id \notin {NONE, VIEWMINES, VIEWRESOURCES, VIEWARTIFACTS, VIEWTOWNS, VIEWHEROES, VIEWALL,
               IDENTIFYHERO, SUMMONBOAT, DIMENSIONDOOR, TOWNGATE, TOWNPORTAL, VISIONS, HAUNT,
               SETEGUARDIAN, SETAGUARDIAN, SETFGUARDIAN, SETWGUARDIAN}

\* Spell::isAdventure: the travel, detection, boat-summon and vision spells
isAdventure(id) ==
    id \in {VIEWMINES, VIEWRESOURCES, VIEWARTIFACTS, VIEWTOWNS, VIEWHEROES, VIEWALL,
            IDENTIFYHERO, SUMMONBOAT, DIMENSIONDOOR, TOWNGATE, TOWNPORTAL, VISIONS}

\* Spell::isValid
isValidSpell(id) == id # NONE

(***************************************************************************)
(* Spell::getStrategicValue.  The value is a double; every term of it is a *)
(* multiple of 0.001 for integer arguments, and the model computes the     *)
(* value in thousandths and amountModifier in twentieths.                  *)
(***************************************************************************)
\* Spell::Damage
Damage(id) ==
    IF id \in {ARROW, FIREBALL, FIREBLAST, LIGHTNINGBOLT, COLDRING, DEATHWAVE, HOLYWORD,
               CHAINLIGHTNING, ARMAGEDDON, ELEMENTALSTORM, METEORSHOWER, COLDRAY, HOLYSHOUT,
               DEATHRIPPLE}
    THEN spells[id + 1].extraValue
    ELSE 0

\* Spell::isDamage
isDamage(id) == Damage(id) # 0

\* Spell::Resurrect
Resurrect(id) ==
    IF id \in {ANIMATEDEAD, RESURRECT, RESURRECTTRUE} THEN spells[id + 1].extraValue ELSE 0

\* Spell::isResurrect
isResurrect(id) == Resurrect(id) # 0

\* isSummon without the Water Elemental case
isSummonThree(id) == id \in {SUMMONEELEMENT, SUMMONAELEMENT, SUMMONFELEMENT}

\* Spell::isSummon
isSummon(id) == id \in {SUMMONEELEMENT, SUMMONAELEMENT, SUMMONFELEMENT, SUMMONWELEMENT}

\* isMassActions counting Elemental Storm, which strikes every troop
isMassActionsWithStorm(id) ==
    id \in {MASSCURE, MASSHASTE, MASSSLOW, MASSBLESS, MASSCURSE, MASSDISPEL, MASSSHIELD,
            ELEMENTALSTORM}

\* Spell::isMassActions
isMassActions(id) ==
    id \in {MASSCURE, MASSHASTE, MASSSLOW, MASSBLESS, MASSCURSE, MASSDISPEL, MASSSHIELD}

\* Spell::ExtraValue
ExtraValue(id) == spells[id + 1].extraValue

\* Monster( id ).GetMonsterStrength(): the strength of the summoned monster
GetMonsterStrength(id) ==
    CASE id = SUMMONEELEMENT -> 3
      [] id = SUMMONAELEMENT -> 4
      [] id = SUMMONFELEMENT -> 5
      [] id = SUMMONWELEMENT -> 6
      [] OTHER -> 0

\* std::min( 12U, ... ): the cap on casts set past the peak of amountModifier
CastsCapTwelve(spellCost, currentSpellPoints) ==
    IF spellCost # 0
    THEN (IF currentSpellPoints \div spellCost < 12 THEN currentSpellPoints \div spellCost ELSE 12)
    ELSE 0

\* std::min( 10U, currentSpellPoints / spellCost ), 0 for a spell of cost 0
Casts(spellCost, currentSpellPoints) ==
    IF spellCost # 0
    THEN (IF currentSpellPoints \div spellCost < 10 THEN currentSpellPoints \div spellCost ELSE 10)
    ELSE 0

\* amountModifier without the quadratic term, in twentieths
amountModifier20Linear(casts) == 20 * casts

\* amountModifier, in twentieths: 1 for one cast, else casts - 0.05 * casts^2
amountModifier20(casts) == IF casts = 1 THEN 20 ELSE 20 * casts - casts * casts

\* getStrategicValue returning 500 * amountModifier for View All too
getStrategicValueViewAllScaled(id, armyStrength, currentSpellPoints, spellPower, schoolSpellModifier) ==
    LET am20 == amountModifier20(Casts(spellPoints(id, nullptr), currentSpellPoints))
    IN  IF isAdventure(id)
        THEN CASE id \in {DIMENSIONDOOR, VIEWALL} -> 25000 * am20
               [] id \in {TOWNGATE, TOWNPORTAL} -> 12500 * am20
               [] OTHER -> 0
        ELSE IF isDamage(id)
        THEN 50 * am20 * (Damage(id) * spellPower + schoolSpellModifier)
        ELSE IF isResurrect(id) \/ isMassActions(id) \/ id = BLIND \/ id = PARALYZE
        THEN 5 * armyStrength * am20
        ELSE IF isSummon(id)
        THEN 1000 * GetMonsterStrength(id) * ExtraValue(id) * spellPower
        ELSE 2 * armyStrength * am20

\* Spell::getStrategicValue, in thousandths
getStrategicValue(id, armyStrength, currentSpellPoints, spellPower, schoolSpellModifier) ==
    LET spellCost == spellPoints(id, nullptr)
        casts == Casts(spellCost, currentSpellPoints)
        am20 == amountModifier20(casts)
    IN  IF isAdventure(id)
        THEN CASE id = DIMENSIONDOOR -> 25000 * am20
               [] id \in {TOWNGATE, TOWNPORTAL} -> 12500 * am20
               [] id = VIEWALL -> 500000
               [] OTHER -> 0
        ELSE IF isDamage(id)
        THEN 50 * am20 * (Damage(id) * spellPower + schoolSpellModifier)
        ELSE IF isResurrect(id) \/ isMassActions(id) \/ id = BLIND \/ id = PARALYZE
        THEN 5 * armyStrength * am20
        ELSE IF isSummon(id)
        THEN 1000 * GetMonsterStrength(id) * ExtraValue(id) * spellPower
        ELSE 2 * armyStrength * am20

(***************************************************************************)
(* The valuation queries: any spell of the table with any arguments.       *)
(***************************************************************************)
getStrategicValueStep ==
    /\ calls < MaxQueries
    /\ \E id \in 0..(SPELL_COUNT - 1), armyStrength \in 0..MaxArmyStrength,
          currentSpellPoints \in 0..MaxSpellPoints, spellPower \in 0..MaxSpellPower,
          schoolSpellModifier \in 0..MaxSchoolModifier :
          valuation' = [op |-> "getStrategicValue", id |-> id, armyStrength |-> armyStrength,
                        currentSpellPoints |-> currentSpellPoints, spellPower |-> spellPower,
                        schoolSpellModifier |-> schoolSpellModifier,
                        value |-> getStrategicValue(id, armyStrength, currentSpellPoints,
                                                    spellPower, schoolSpellModifier)]
    /\ calls' = calls + 1
    /\ UNCHANGED <<secs, sec1, sec2, last, query, randVars>>

NextValue == getStrategicValueStep

SpecValue == InitSpells /\ [][NextValue]_vars

(***************************************************************************)
(* The process-wide random generator.  Rand::Get( vec ) takes no seed: it  *)
(* draws the index from the generator, which moves on with every draw.     *)
(***************************************************************************)
\* the generator after n draws
Advance(g, n) == (g + n) % (MaxRng + 1)

\* Rand::Get( vec ) on the generator in state g
Get(vec, g) == vec[(g % Len(vec)) + 1]

(***************************************************************************)
(* Spell::Rand, RandCombat, RandAdventure.  Each gives the spell and the   *)
(* number of draws it took from the generator in state g.                  *)
(***************************************************************************)
RECURSIVE RandCandidates(_, _, _, _)
RandCandidates(vec, level, adventure, spellId) ==
    IF spellId >= PETRIFY THEN vec
    ELSE IF level # Level(spellId) THEN RandCandidates(vec, level, adventure, spellId + 1)
    ELSE IF adventure /\ ~isAdventure(spellId) THEN RandCandidates(vec, level, adventure, spellId + 1)
    ELSE IF ~adventure /\ ~isCombat(spellId) THEN RandCandidates(vec, level, adventure, spellId + 1)
    ELSE RandCandidates(Append(vec, spellId), level, adventure, spellId + 1)

\* Spell::Rand
Rand(level, adventure, g) ==
    LET vec == RandCandidates(<< >>, level, adventure, NONE)
    IN  IF vec # << >>
        THEN [result |-> Get(vec, g), draws |-> 1]
        ELSE [result |-> NONE, draws |-> 0]

\* Spell::RandCombat
RandCombat(level, g) == Rand(level, FALSE, g)

\* Spell::RandAdventure
RandAdventure(level, g) ==
    LET spell == Rand(level, TRUE, g)
    IN  IF isValidSpell(spell.result)
        THEN spell
        ELSE LET combat == RandCombat(level, Advance(g, spell.draws))
             IN  [result |-> combat.result, draws |-> spell.draws + combat.draws]

(***************************************************************************)
(* Skill::Secondary::RandForWitchsHut.                                     *)
(***************************************************************************)
\* GameStatic::GetSkillForWitchsHut: the skills a witch's hut may teach
GetSkillForWitchsHut(skill) == skill \notin {LEADERSHIP, NECROMANCY}

\* the order in which RandForWitchsHut looks at the flags of the table
WitchsHutOrder ==
    << ARCHERY, BALLISTICS, DIPLOMACY, EAGLEEYE, ESTATES, LEADERSHIP, LOGISTICS, LUCK,
       MYSTICISM, NAVIGATION, NECROMANCY, PATHFINDING, SCOUTING, WISDOM, OFFENSE, AIRMAGIC,
       ARMORER, ARTILLERY, EARTHMAGIC, FIREMAGIC, FIRSTAID, INTELLIGENCE, LEARNING,
       RESISTANCE, SCHOLAR, SORCERY, TACTICS, WATERMAGIC >>

RandForWitchsHut(g) ==
    LET v == SelectSeq(WitchsHutOrder, GetSkillForWitchsHut)
    IN  IF v = << >>
        THEN [result |-> UNKNOWN, draws |-> 0]
        ELSE [result |-> Get(v, g), draws |-> 1]

(***************************************************************************)
(* Skill::Primary::LevelUp.                                                *)
(***************************************************************************)
ATTACK == 1
DEFENSE == 2
POWER == 3
KNOWLEDGE == 4
MAXPRIMARYSKILL == 4

\* stats_t::over_level of the race
over_level(race) == IF race = "HEAVY" THEN 3 ELSE 2

\* stats_t::mature_primary_under of the race
mature_primary_under(race) ==
    CASE race = "ARCHER" -> [attack |-> 1, defense |-> 1, power |-> 1, knowledge |-> 0]
      [] race = "SPARSE" -> [attack |-> 0, defense |-> 0, power |-> 0, knowledge |-> 0]
      [] OTHER -> [attack |-> 2, defense |-> 1, power |-> 0, knowledge |-> 0]

\* stats_t::mature_primary_over of the race
mature_primary_over(race) ==
    CASE race = "ARCHER" -> [attack |-> 0, defense |-> 0, power |-> 1, knowledge |-> 2]
      [] race = "SPARSE" -> [attack |-> 1, defense |-> 0, power |-> 0, knowledge |-> 1]
      [] OTHER -> [attack |-> 0, defense |-> 1, power |-> 1, knowledge |-> 1]

\* the queue of percents LevelUp builds
LevelUpPercents(race, level) ==
    IF GetSkillStats(race)
    THEN LET row == IF over_level(race) > level
                    THEN mature_primary_under(race)
                    ELSE mature_primary_over(race)
         IN  Push(Push(Push(Push(<< >>, ATTACK, row.attack), DEFENSE, row.defense),
                       POWER, row.power), KNOWLEDGE, row.knowledge)
    ELSE << >>

\* the switch that increments the chosen counter
Increment(p, result) ==
    CASE result = ATTACK -> [p EXCEPT !.attack = @ + 1]
      [] result = DEFENSE -> [p EXCEPT !.defense = @ + 1]
      [] result = POWER -> [p EXCEPT !.power = @ + 1]
      [] result = KNOWLEDGE -> [p EXCEPT !.knowledge = @ + 1]
      [] OTHER -> p

\* LevelUp drawing the counter from the process-wide generator instead of
\* from the seed
LevelUpUnseeded(p, race, level, seed, g) ==
    LET percents == LevelUpPercents(race, level)
        result == IF Len(percents) # 0
                  THEN Get(<< ATTACK, DEFENSE, POWER, KNOWLEDGE >>, g)
                  ELSE UNKNOWN
    IN  [primary |-> Increment(p, result), result |-> result,
         draws |-> IF Len(percents) # 0 THEN 1 ELSE 0]

\* Skill::Primary::LevelUp on the counters p, with the generator in state g
LevelUp(p, race, level, seed, g) ==
    LET percents == LevelUpPercents(race, level)
        result == IF Len(percents) # 0 THEN GetWithSeed(percents, seed) ELSE UNKNOWN
    IN  [primary |-> Increment(p, result), result |-> result, draws |-> 0]

(***************************************************************************)
(* The random decisions of the engine, two in a row, from any state of     *)
(* the process-wide generator.                                             *)
(***************************************************************************)
\* the heroes making random decisions: one without skills, one with a full
\* roster
RandInitSkills == {0, HEROESMAXSKILL}

InitRand ==
    /\ \E n \in RandInitSkills : secs = SecSkills(n, "mixed")
    /\ sec1 = SecondaryDefault
    /\ sec2 = SecondaryDefault
    /\ last = NoOp
    /\ calls = 0
    /\ query = NoQuery
    /\ valuation = NoValuation
    /\ primary = PrimaryDefault
    /\ rng \in 0..MaxRng
    /\ decision = NoDecision
    /\ earlier = NoDecision

\* what a call of FindSkillsForLevelUp proposes through its two entries
Proposals(s1, s2) == IF s1.skill = UNKNOWN THEN << UNKNOWN >> ELSE << s1, s2 >>

LevelUpStep ==
    /\ calls < MaxCalls
    /\ \E race \in Races, level \in 1..MaxHeroLevel, seed \in 0..MaxSeed :
          LET out == LevelUp(primary, race, level, seed, rng)
          IN  /\ primary' = out.primary
              /\ rng' = Advance(rng, out.draws)
              /\ decision' = [op |-> "LevelUp", args |-> << race, level, seed >>,
                              result |-> << out.result >>, rng |-> rng]
    /\ earlier' = decision
    /\ calls' = calls + 1
    /\ UNCHANGED <<secs, sec1, sec2, last, spellVars>>

FindSkillsForLevelUpRandStep ==
    /\ FindSkillsForLevelUpCall
    /\ decision' = [op |-> "FindSkillsForLevelUp",
                    args |-> << last'.race, last'.seed1, last'.seed2 >>,
                    result |-> Proposals(sec1', sec2'), rng |-> rng]
    /\ earlier' = decision
    /\ UNCHANGED <<spellVars, primary, rng>>

SpellRandStep ==
    /\ calls < MaxCalls
    /\ \E level \in 0..MaxSpellLevel, adventure \in BOOLEAN :
          LET out == Rand(level, adventure, rng)
          IN  /\ rng' = Advance(rng, out.draws)
              /\ decision' = [op |-> "Rand", args |-> << level, adventure >>,
                              result |-> << out.result >>, rng |-> rng]
    /\ earlier' = decision
    /\ calls' = calls + 1
    /\ UNCHANGED <<secs, sec1, sec2, last, spellVars, primary>>

SpellRandAdventureStep ==
    /\ calls < MaxCalls
    /\ \E level \in 0..MaxSpellLevel :
          LET out == RandAdventure(level, rng)
          IN  /\ rng' = Advance(rng, out.draws)
              /\ decision' = [op |-> "RandAdventure", args |-> << level >>,
                              result |-> << out.result >>, rng |-> rng]
    /\ earlier' = decision
    /\ calls' = calls + 1
    /\ UNCHANGED <<secs, sec1, sec2, last, spellVars, primary>>

RandForWitchsHutStep ==
    /\ calls < MaxCalls
    /\ LET out == RandForWitchsHut(rng)
       IN  /\ rng' = Advance(rng, out.draws)
           /\ decision' = [op |-> "RandForWitchsHut", args |-> << >>,
                           result |-> << out.result >>, rng |-> rng]
    /\ earlier' = decision
    /\ calls' = calls + 1
    /\ UNCHANGED <<secs, sec1, sec2, last, spellVars, primary>>

NextRand ==
    \/ LevelUpStep
    \/ FindSkillsForLevelUpRandStep
    \/ SpellRandStep
    \/ SpellRandAdventureStep
    \/ RandForWitchsHutStep

SpecRand == InitRand /\ [][NextRand]_vars

(***************************************************************************)
(* The selection of spells for play: Spell::Rand and the list of the ids   *)
(* that may be put into a spell book.                                      *)
(***************************************************************************)
\* the body of the loop of getAllSpellIdsSuitableForSpellBook: spellId is
\* pushed unless one of the two tests skips it
SuitableForSpellBook(spellId, spellLevel) ==
    /\ ~(spellId = NONE \/ (spellId >= RANDOM /\ spellId <= PETRIFY))
    /\ ~(spellLevel > 0 /\ Level(spellId) # spellLevel)

\* Spell::getAllSpellIdsSuitableForSpellBook: the ids pushed, in the rising
\* order of the loop over 0..SPELL_COUNT - 1
getAllSpellIdsSuitableForSpellBook(spellLevel) ==
    LET pushed == {spellId \in 0..(SPELL_COUNT - 1) : SuitableForSpellBook(spellId, spellLevel)}
    IN  [i \in 1..Cardinality(pushed) |->
            CHOOSE spellId \in pushed : Cardinality({other \in pushed : other <= spellId}) = i]

getAllSpellIdsSuitableForSpellBookStep ==
    /\ calls < MaxCalls
    /\ \E spellLevel \in (-1)..MaxSpellLevel :
          decision' = [op |-> "getAllSpellIdsSuitableForSpellBook", args |-> << spellLevel >>,
                       result |-> getAllSpellIdsSuitableForSpellBook(spellLevel), rng |-> rng]
    /\ earlier' = decision
    /\ calls' = calls + 1
    /\ UNCHANGED <<secs, sec1, sec2, last, spellVars, primary, rng>>

NextSelect ==
    \/ SpellRandStep
    \/ getAllSpellIdsSuitableForSpellBookStep

SpecSelect == InitRand /\ [][NextSelect]_vars

(***************************************************************************)
(* What a call of FindSkillsForLevelUp hands back.  The call always        *)
(* assigns the skill of sec1; it assigns sec2 (and both levels) only when  *)
(* the first pick is a real skill.                                         *)
(***************************************************************************)
Called == last.op = "FindSkillsForLevelUp"

\* the first pick was a real skill, so the call assigned both entries
BothAssigned == Called /\ sec1.skill # UNKNOWN

\* the proposals the call made: an assigned entry that is valid
FirstProposed == Called /\ isValid(sec1)

SecondProposed == BothAssigned /\ isValid(sec2)

\* some entry of the vector holds skill k at level EXPERT
ExpertIn(v, k) == \E i \in 1..Len(v) : v[i].skill = k /\ v[i].level = EXPERT

\* the valid entries of the vector carry pairwise different skills
NoDuplicateSkill(v) ==
    \A i, j \in 1..Len(v) : (i # j /\ isValid(v[i]) /\ isValid(v[j])) => v[i].skill # v[j].skill

(***************************************************************************)
(* C1: after construction and any sequence of AddSkill calls, Count() is   *)
(* at most 8 and no two valid entries share a skill.                       *)
(***************************************************************************)
C1_CapacityInvariant == Count(secs) <= 8 /\ NoDuplicateSkill(secs)

\* AddSkill of a valid entry of a new skill has met a full vector
C1_Witness ==
    /\ last.op = "AddSkill"
    /\ isValid(last.skill)
    /\ Count(secs) = 8
    /\ GetLevel(secs, last.skill.skill) = NONE

(***************************************************************************)
(* C3: a skill K held at level EXPERT is in neither proposal of            *)
(* FindSkillsForLevelUp.                                                   *)
(***************************************************************************)
C3_ExpertExcluded ==
    \A k \in PATHFINDING..WATERMAGIC :
        (Called /\ ExpertIn(secs, k)) =>
            /\ sec1.skill # k
            /\ (BothAssigned => sec2.skill # k)

\* a call made proposals although an EXPERT skill had a positive weight
C3_Witness ==
    /\ FirstProposed
    /\ SecondProposed
    /\ \E k \in PATHFINDING..WATERMAGIC :
          ExpertIn(secs, k) /\ SecondaryGetWeightSkillFromRace(last.race, k) > 0

(***************************************************************************)
(* C4: with Count() >= 8, every proposal names a skill the vector already  *)
(* holds at BASIC or ADVANCED, never one whose level is NONE.              *)
(***************************************************************************)
C4_FullRosterOnlyImproves ==
    (Called /\ Count(secs) >= 8) =>
        /\ (FirstProposed => GetLevel(secs, sec1.skill) \in {BASIC, ADVANCED})
        /\ (SecondProposed => GetLevel(secs, sec2.skill) \in {BASIC, ADVANCED})

\* a full vector got a proposal although a skill it lacks had a positive weight
C4_Witness ==
    /\ FirstProposed
    /\ Count(secs) >= 8
    /\ \E k \in PATHFINDING..WATERMAGIC :
          GetLevel(secs, k) = NONE /\ SecondaryGetWeightSkillFromRace(last.race, k) > 0

(***************************************************************************)
(* C5: if the first pick is none, both output entries are none on return,  *)
(* whatever they held before the call.                                     *)
(***************************************************************************)
C5_BothNoneOnNoPick ==
    (Called /\ sec1.skill = UNKNOWN) => (~isValid(sec1) /\ ~isValid(sec2))

(***************************************************************************)
(* C6: two valid proposals of one call never name the same skill, also     *)
(* when both seeds are equal.                                              *)
(***************************************************************************)
C6_DistinctProposals ==
    (Called /\ isValid(sec1) /\ isValid(sec2)) => sec1.skill # sec2.skill

\* a call with equal seeds made two proposals
C6_Witness ==
    /\ FirstProposed
    /\ SecondProposed
    /\ last.seed1 = last.seed2

(***************************************************************************)
(* C7: every proposal carries the level one step above the skill's level   *)
(* in the vector, and the call leaves the vector as it was.                *)
(***************************************************************************)
C7_NextLevelProposed ==
    [][ (last'.op = "FindSkillsForLevelUp" /\ calls' # calls) =>
            /\ secs' = secs
            /\ (isValid(sec1') => sec1'.level = GetLevel(secs, sec1'.skill) + 1)
            /\ ((sec1'.skill # UNKNOWN /\ isValid(sec2')) =>
                    sec2'.level = GetLevel(secs, sec2'.skill) + 1) ]_vars

\* proposals were made for a new skill, a BASIC one and an ADVANCED one
C7_Witness ==
    /\ FirstProposed
    /\ SecondProposed
    /\ {sec1.level, sec2.level} \in {{BASIC, ADVANCED}, {ADVANCED, EXPERT}, {BASIC, EXPERT}}

(***************************************************************************)
(* C8: a skill of race weight 0 is never proposed; with an empty vector    *)
(* and a race that weighs only Archery, the first proposal is              *)
(* (Archery, Basic) for every seed and the second is none.                 *)
(***************************************************************************)
C8_ZeroWeightNeverProposed ==
    /\ FirstProposed => SecondaryGetWeightSkillFromRace(last.race, sec1.skill) > 0
    /\ SecondProposed => SecondaryGetWeightSkillFromRace(last.race, sec2.skill) > 0
    /\ (Called /\ secs = << >> /\ last.race = "ARCHER") =>
            (sec1 = Secondary(ARCHERY, BASIC) /\ ~isValid(sec2))

\* the call on the empty vector for the race that weighs only Archery
C8_Witness ==
    /\ Called
    /\ secs = << >>
    /\ last.race = "ARCHER"
    /\ last.seed1 = MaxSeed
    /\ sec1 = Secondary(ARCHERY, BASIC)

C2_CostFloor ==
    (query.op = "spellPoints" /\ ~query.hero.isNull) => query.cost >= 1

(***************************************************************************)
(* C10: every randomized decision takes an explicit seed and consumes no   *)
(* hidden entropy, Spell::Rand, RandCombat, RandAdventure and              *)
(* RandForWitchsHut included: two decisions made by the same operation     *)
(* with identical arguments return the same result.                        *)
(***************************************************************************)
SameArguments ==
    /\ decision.op # "none"
    /\ earlier.op = decision.op
    /\ earlier.args = decision.args

C10_AllDecisionsSeeded ==
    SameArguments => earlier.result = decision.result

(***************************************************************************)
(* C10, amended: Primary::LevelUp and FindSkillsForLevelUp take explicit   *)
(* seeds and draw nothing from the process-wide generator, and two calls   *)
(* of them with identical arguments on the same skills return the same     *)
(* result; Spell::Rand, RandAdventure and RandForWitchsHut take no seed    *)
(* and draw their result from the process-wide generator whenever they     *)
(* have a candidate.                                                       *)
(***************************************************************************)
Seeded == {"LevelUp", "FindSkillsForLevelUp"}

Unseeded == {"Rand", "RandAdventure", "RandForWitchsHut"}

C10_SeededDecisionsOnly ==
    /\ decision.op \in Seeded =>
          /\ rng = decision.rng
          /\ SameArguments => earlier.result = decision.result
    /\ (decision.op \in Unseeded /\ decision.result # << NONE >>) => rng # decision.rng

\* a level-up made twice with the same arguments, both raising the attack
C10_Witness ==
    /\ decision.op = "LevelUp"
    /\ SameArguments
    /\ decision.result # << UNKNOWN >>
    /\ primary.attack = 2

(***************************************************************************)
(* C11: after any sequence of AddSkill, FillMax (with any entry) and load  *)
(* operations, no two valid entries share a skill.                         *)
(***************************************************************************)
C11_NoDuplicatesEver == NoDuplicateSkill(secs)

(***************************************************************************)
(* C12: the length never exceeds 8 after any sequence of AddSkill, FillMax *)
(* and load operations; a load of a sequence longer than 8 keeps exactly   *)
(* its first 8 entries in their order.                                     *)
(***************************************************************************)
C12_LengthAtMostEight ==
    /\ Len(secs) <= 8
    /\ last.op = "Load" =>
          /\ Len(secs) = (IF Len(last.stream) > 8 THEN 8 ELSE Len(last.stream))
          /\ \A i \in 1..Len(secs) : secs[i] = last.stream[i]

\* a load of a sequence of more than 8 entries, all different
C12_Witness ==
    /\ last.op = "Load"
    /\ Len(last.stream) > 8
    /\ \A i, j \in 1..Len(last.stream) : i # j => last.stream[i] # last.stream[j]

(***************************************************************************)
(* C13: AddSkill leaves the vector unchanged when the entry is invalid,    *)
(* and when the entry is valid, its skill is absent and all 8 slots hold   *)
(* valid entries.                                                          *)
(***************************************************************************)
Absent(v, skill) == \A i \in 1..Len(v) : v[i].skill # skill

AllSlotsValid(v) == Len(v) = 8 /\ \A i \in 1..Len(v) : isValid(v[i])

C13_AddSkillNoOp ==
    (/\ last.op = "AddSkill"
     /\ \/ ~isValid(last.skill)
        \/ Absent(last.before, last.skill.skill) /\ AllSlotsValid(last.before))
        => secs = last.before

\* a valid entry of an absent skill, added to 8 valid entries
C13_Witness ==
    /\ last.op = "AddSkill"
    /\ isValid(last.skill)
    /\ Absent(last.before, last.skill.skill)
    /\ AllSlotsValid(last.before)

(***************************************************************************)
(* C14: for a valid entry (K, L) that is not dropped, after AddSkill       *)
(* GetLevel(K) = L, the level of every other skill is unchanged, and the   *)
(* length grows by at most one, and only when K was absent and no slot     *)
(* was empty.                                                              *)
(***************************************************************************)
HasEmptySlot(v) == \E i \in 1..Len(v) : ~isValid(v[i])

NotDropped(v, skill) == ~Absent(v, skill) \/ HasEmptySlot(v) \/ Len(v) < 8

CategorySpells ==
    {BLESS, MASSBLESS, SUMMONEELEMENT, SUMMONAELEMENT, SUMMONFELEMENT, SUMMONWELEMENT,
     CURSE, MASSCURSE, BLIND, PARALYZE, BERSERKER, HYPNOTIZE}

\* the integer x with x <= cost * (100 - p) / 100 < x + 1
FloorStep(cost, p) ==
    CHOOSE x \in 0..cost : 100 * x <= cost * (100 - p) /\ cost * (100 - p) < 100 * (x + 1)

\* the running cost after the first n percentages of the list
RunningCost[n \in 0..(MaxArtifacts + 1)] ==
    IF n = 0
    THEN spells[query.id + 1].spellPoints
             - spells[query.id + 1].spellPointsDiscounts[query.hero.mastery + 1]
    ELSE FloorStep(RunningCost[n - 1], query.hero.percents[n])

AtLeastOne(x) == IF x < 1 THEN 1 ELSE x

C15_PercentagesCascade ==
    (query.op = "spellPoints" /\ ~query.hero.isNull /\ query.id \in CategorySpells) =>
        /\ query.cost = AtLeastOne(RunningCost[Len(query.hero.percents)])
        /\ (query.id = BLESS /\ query.hero.mastery = 0 /\ query.hero.percents = << 50 >>) =>
              query.cost = AtLeastOne(spells[BLESS + 1].spellPoints \div 2)

\* two percentages whose cascade differs from their sum applied once
C15_Witness ==
    /\ query.op = "spellPoints"
    /\ ~query.hero.isNull
    /\ query.id \in CategorySpells
    /\ Len(query.hero.percents) = 2
    /\ query.cost > 1
    /\ query.cost # (spells[query.id + 1].spellPoints
                        * (100 - query.hero.percents[1] - query.hero.percents[2])) \div 100

(***************************************************************************)
(* C16: without a caster spellPoints returns the base cost of the table    *)
(* for every spell id; with a caster, a spell of none of the four artifact *)
(* bonus types costs the base cost minus the school discount, whatever the *)
(* artifact percentages; Fireball for a caster without discounts costs 9.  *)
(***************************************************************************)
C16_BaseCostAndSchoolDiscount ==
    query.op = "spellPoints" =>
        /\ query.hero.isNull => query.cost = spells[query.id + 1].spellPoints
        /\ (~query.hero.isNull /\ query.id \notin CategorySpells) =>
              query.cost = spells[query.id + 1].spellPoints
                               - spells[query.id + 1].spellPointsDiscounts[query.hero.mastery + 1]
        /\ (query.id = FIREBALL /\ ~query.hero.isNull /\ query.hero.mastery = 0) => query.cost = 9

\* Fireball for a caster with a school discount and two artifact percentages
C16_Witness ==
    /\ query.op = "spellPoints"
    /\ query.id = FIREBALL
    /\ ~query.hero.isNull
    /\ query.hero.mastery = 1
    /\ query.hero.percents = << 50, 100 >>
    /\ query.cost = 7

(***************************************************************************)
(* C17: repeated NextLevel calls on an entry at Basic give Advanced, then  *)
(* Expert, and every further call leaves the level at Expert; the level    *)
(* never leaves the range None..Expert.                                    *)
(***************************************************************************)
C17_NextLevelSaturates ==
    /\ sec1.level \in {NONE, BASIC, ADVANCED, EXPERT}
    /\ sec1.skill = last.skill.skill
    /\ last.skill.level = BASIC =>
          sec1.level = (IF calls = 0 THEN BASIC ELSE IF calls = 1 THEN ADVANCED ELSE EXPERT)
    /\ last.skill.level = EXPERT => sec1.level = EXPERT

\* the fourth call on an entry constructed at Basic
C17_Witness ==
    /\ last.op = "Secondary"
    /\ last.skill.level = BASIC
    /\ calls = 4
    /\ sec1.level = EXPERT

(***************************************************************************)
(* C18: every Primary::LevelUp increments exactly one of attack, defense,  *)
(* power, knowledge by exactly one and leaves the other three unchanged,   *)
(* for every race, level and seed, a race without a stats table or with an *)
(* all-zero row included; the returned value names the incremented one.    *)
(***************************************************************************)
Counter(p, which) ==
    CASE which = ATTACK -> p.attack
      [] which = DEFENSE -> p.defense
      [] which = POWER -> p.power
      [] OTHER -> p.knowledge

C18_ExactlyOneIncrement ==
    [][(decision'.op = "LevelUp" /\ calls' # calls) =>
          \E which \in {ATTACK, DEFENSE, POWER, KNOWLEDGE} :
              /\ decision'.result = << which >>
              /\ Counter(primary', which) = Counter(primary, which) + 1
              /\ \A other \in {ATTACK, DEFENSE, POWER, KNOWLEDGE} \ {which} :
                    Counter(primary', other) = Counter(primary, other)]_vars

(***************************************************************************)
(* C19: with 8 slots of which one is empty, so that Count() = 7,           *)
(* FindSkillsForLevelUp still proposes when a skill not yet learned has    *)
(* positive weight, and AddSkill of a proposed new skill occupies the      *)
(* empty slot: the length stays 8 and Count() becomes 8.                   *)
(***************************************************************************)
OneSlotEmpty(v) == Len(v) = 8 /\ Count(v) = 7

C19_NewSkillThroughEmptySlot ==
    /\ (/\ Called
        /\ OneSlotEmpty(secs)
        /\ \E k \in PATHFINDING..WATERMAGIC :
              /\ GetLevel(secs, k) = NONE
              /\ SecondaryGetWeightSkillFromRace(last.race, k) > 0)
          => isValid(sec1)
    /\ (/\ last.op = "AddSkill"
        /\ isValid(last.skill)
        /\ OneSlotEmpty(last.before)
        /\ GetLevel(last.before, last.skill.skill) = NONE)
          => /\ Len(secs) = 8
             /\ Count(secs) = 8
             /\ GetLevel(secs, last.skill.skill) = BASIC

\* a new skill, proposed for a vector with one empty slot, has been added
C19_Witness ==
    /\ last.op = "AddSkill"
    /\ isValid(last.skill)
    /\ OneSlotEmpty(last.before)
    /\ GetLevel(last.before, last.skill.skill) = NONE
    /\ Count(secs) = 8
    /\ \E i \in 1..8 : ~isValid(last.before[i]) /\ secs[i] = last.skill

(***************************************************************************)
(* C20: for an adventure spell getStrategicValue returns                   *)
(* 500 x amountModifier for Dimension Door, 250 x amountModifier for Town  *)
(* Gate and Town Portal, exactly 500 for View All whatever the caster's    *)
(* spell points, and 0 for every other adventure spell, with               *)
(* casts = min(10, currentSpellPoints / cost) in integer division and 0    *)
(* when the cost is 0.  Values in thousandths, amountModifier in           *)
(* twentieths.                                                             *)
(***************************************************************************)
ClaimedCasts ==
    LET cost == spells[valuation.id + 1].spellPoints
        afford == IF cost = 0 THEN 0 ELSE valuation.currentSpellPoints \div cost
    IN  IF afford > 10 THEN 10 ELSE afford

ClaimedModifier20 ==
    IF ClaimedCasts = 1 THEN 20 ELSE 20 * ClaimedCasts - ClaimedCasts * ClaimedCasts

C20_AdventureValues ==
    (valuation.op = "getStrategicValue" /\ isAdventure(valuation.id)) =>
        /\ valuation.id = DIMENSIONDOOR => 20 * valuation.value = 500 * 1000 * ClaimedModifier20
        /\ valuation.id \in {TOWNGATE, TOWNPORTAL} =>
              20 * valuation.value = 250 * 1000 * ClaimedModifier20
        /\ valuation.id = VIEWALL => valuation.value = 500 * 1000
        /\ valuation.id \notin {DIMENSIONDOOR, TOWNGATE, TOWNPORTAL, VIEWALL} => valuation.value = 0

\* View All valued for a caster who can afford it three times
C20_Witness ==
    /\ valuation.op = "getStrategicValue"
    /\ valuation.id = VIEWALL
    /\ ClaimedCasts = 3
    /\ valuation.value = 500 * 1000

(***************************************************************************)
(* C21: for each of the four Summon Elemental spells getStrategicValue is  *)
(* monsterStrength x extraValue x spellPower, and the same for every       *)
(* currentSpellPoints, armyStrength and schoolSpellModifier: no            *)
(* amountModifier is applied.  Values in thousandths.                      *)
(***************************************************************************)
SummonElementalSpells == {SUMMONEELEMENT, SUMMONAELEMENT, SUMMONFELEMENT, SUMMONWELEMENT}

C21_SummonValue ==
    (valuation.op = "getStrategicValue" /\ valuation.id \in SummonElementalSpells) =>
        /\ valuation.value = 1000 * GetMonsterStrength(valuation.id)
                                  * spells[valuation.id + 1].extraValue * valuation.spellPower
        /\ \A armyStrength \in 0..MaxArmyStrength, currentSpellPoints \in 0..MaxSpellPoints,
              schoolSpellModifier \in 0..MaxSchoolModifier :
              getStrategicValue(valuation.id, armyStrength, currentSpellPoints,
                                valuation.spellPower, schoolSpellModifier) = valuation.value

\* Summon Water Elemental valued for a caster who cannot afford it
C21_Witness ==
    /\ valuation.op = "getStrategicValue"
    /\ valuation.id = SUMMONWELEMENT
    /\ valuation.currentSpellPoints < spells[SUMMONWELEMENT + 1].spellPoints
    /\ valuation.armyStrength > 0
    /\ valuation.spellPower > 0
    /\ valuation.value = 1000 * 6 * 3 * valuation.spellPower

(***************************************************************************)
(* C22: amountModifier is non-decreasing for casts in 1..4, and a damage   *)
(* spell valued with positive spell power at 10 casts is worth less than   *)
(* 5 times its value at 2 casts.                                           *)
(***************************************************************************)
DamageValued ==
    /\ valuation.op = "getStrategicValue"
    /\ isDamage(valuation.id)
    /\ ~isAdventure(valuation.id)
    /\ valuation.spellPower > 0

\* the value of the recorded query for a caster who affords exactly n casts
ValueAtCasts(n) ==
    getStrategicValue(valuation.id, valuation.armyStrength,
                      n * spells[valuation.id + 1].spellPoints,
                      valuation.spellPower, valuation.schoolSpellModifier)

C22_DiminishingReturns ==
    /\ \A casts \in 1..3 : amountModifier20(casts) <= amountModifier20(casts + 1)
    /\ (DamageValued /\ ClaimedCasts = 10) =>
          /\ 20 * valuation.value = amountModifier20(10) * 1000 *
                (Damage(valuation.id) * valuation.spellPower + valuation.schoolSpellModifier)
          /\ valuation.value < 5 * ValueAtCasts(2)
    /\ (DamageValued /\ ClaimedCasts = 2) => ValueAtCasts(10) < 5 * valuation.value

\* Magic Arrow valued at the cap of 10 casts
C22_Witness ==
    /\ DamageValued
    /\ valuation.id = ARROW
    /\ ClaimedCasts = 10
    /\ valuation.value > 0
    /\ valuation.value = ValueAtCasts(10)
    /\ ValueAtCasts(2) > 0

(***************************************************************************)
(* C30: over casts = 0..10 amountModifier is strictly increasing, 0 at     *)
(* casts = 0 and at its maximum 5 only at casts = 10, so a damage,         *)
(* high-impact or default-branch spell valued with more affordable casts   *)
(* is never valued lower.                                                  *)
(***************************************************************************)
\* the casts the code computes for the recorded query
RecordedCasts == Casts(spellPoints(valuation.id, nullptr), valuation.currentSpellPoints)

HighImpact(id) == isResurrect(id) \/ isMassActions(id) \/ id = BLIND \/ id = PARALYZE

\* the spell is valued by the damage, the high-impact or the default branch
ScaledBranch(id) == ~isAdventure(id) /\ (isDamage(id) \/ HighImpact(id) \/ ~isSummon(id))

\* the value of the recorded query with the caster's spell points replaced
ValueAtPoints(points) ==
    getStrategicValue(valuation.id, valuation.armyStrength, points,
                      valuation.spellPower, valuation.schoolSpellModifier)

\* larger amounts of spell points: one more point, and 1..12 more casts
MorePoints ==
    {valuation.currentSpellPoints + 1} \cup
    {valuation.currentSpellPoints + n * spells[valuation.id + 1].spellPoints : n \in 1..12}

C30_NeverValuedLower ==
    /\ amountModifier20(0) = 0
    /\ \A casts \in 0..9 : amountModifier20(casts) < amountModifier20(casts + 1)
    /\ \A casts \in 0..10 : amountModifier20(casts) = 5 * 20 <=> casts = 10
    /\ valuation.op = "getStrategicValue" =>
          /\ RecordedCasts \in 0..10
          /\ ScaledBranch(valuation.id) =>
                \A points \in MorePoints :
                   /\ Casts(spellPoints(valuation.id, nullptr), points) >= RecordedCasts
                   /\ ValueAtPoints(points) >= valuation.value

\* Magic Arrow valued at 9 casts, below its value at the cap
C30_Witness ==
    /\ valuation.op = "getStrategicValue"
    /\ valuation.id = ARROW
    /\ valuation.spellPower > 0
    /\ RecordedCasts = 9
    /\ valuation.value > 0
    /\ valuation.value < ValueAtPoints(MaxSpellPoints)

(***************************************************************************)
(* C29: the spell sets tested by the combat branches of getStrategicValue  *)
(* are pairwise disjoint: no spell is both a damage spell and a            *)
(* high-impact spell (resurrect, mass action, Blind, Paralyze), nor both a *)
(* summon spell and either of the other two, so the result does not depend *)
(* on the order in which the three branches are checked.                   *)
(***************************************************************************)
DamageSpell(id) == Damage(id) > 0

\* getStrategicValue with the three combat branches checked in reverse order
ValueBranchesReversed(id, armyStrength, currentSpellPoints, spellPower, schoolSpellModifier) ==
    LET am20 == amountModifier20(Casts(spellPoints(id, nullptr), currentSpellPoints))
    IN  IF isAdventure(id)
        THEN getStrategicValue(id, armyStrength, currentSpellPoints, spellPower, schoolSpellModifier)
        ELSE IF isSummon(id)
        THEN 1000 * GetMonsterStrength(id) * ExtraValue(id) * spellPower
        ELSE IF HighImpact(id)
        THEN 5 * armyStrength * am20
        ELSE IF DamageSpell(id)
        THEN 50 * am20 * (Damage(id) * spellPower + schoolSpellModifier)
        ELSE 2 * armyStrength * am20

C29_BranchesDisjoint ==
    valuation.op = "getStrategicValue" =>
        /\ ~(DamageSpell(valuation.id) /\ HighImpact(valuation.id))
        /\ ~(isSummon(valuation.id) /\ DamageSpell(valuation.id))
        /\ ~(isSummon(valuation.id) /\ HighImpact(valuation.id))
        /\ isDamage(valuation.id) <=> DamageSpell(valuation.id)
        /\ valuation.value = ValueBranchesReversed(valuation.id, valuation.armyStrength,
                                                   valuation.currentSpellPoints,
                                                   valuation.spellPower,
                                                   valuation.schoolSpellModifier)

\* Elemental Storm, a damage spell that strikes every troop, valued as a damage spell
C29_Witness ==
    /\ valuation.op = "getStrategicValue"
    /\ valuation.id = ELEMENTALSTORM
    /\ DamageSpell(valuation.id)
    /\ ~HighImpact(valuation.id)
    /\ valuation.armyStrength > 0
    /\ valuation.spellPower > 0
    /\ RecordedCasts = 2
    /\ valuation.value = 50 * 36 * (Damage(ELEMENTALSTORM) * valuation.spellPower
                                    + valuation.schoolSpellModifier)

(***************************************************************************)
(* C27: for every spell of the table and every school mastery index 0..3   *)
(* the scheduled discount does not exceed the base cost, so the signed     *)
(* cost after the school discount is never negative and the unsigned       *)
(* value spellPoints returns never wraps around: it is at most the base    *)
(* cost.                                                                   *)
(***************************************************************************)
BaseCost(id) == spells[id + 1].spellPoints

C27_DiscountWithinBase ==
    query.op = "spellPoints" =>
        /\ \A i \in 1..4 : spells[query.id + 1].spellPointsDiscounts[i] <= BaseCost(query.id)
        /\ ~query.hero.isNull =>
              BaseCost(query.id) - GetSpellCostReduction(query.hero, query.id) >= 0
        /\ query.cost >= 0
        /\ query.cost <= BaseCost(query.id)

\* View Mines for a caster with basic mastery: the discount is the whole base cost
C27_Witness ==
    /\ query.op = "spellPoints"
    /\ query.id = VIEWMINES
    /\ ~query.hero.isNull
    /\ query.hero.mastery = 1
    /\ GetSpellCostReduction(query.hero, query.id) = BaseCost(query.id)
    /\ query.cost = 0

(***************************************************************************)
(* C24: the six random placeholder ids, Petrify and the Unknown/NONE id    *)
(* are excluded from gameplay selection:                                   *)
(* getAllSpellIdsSuitableForSpellBook never returns any of them, whatever  *)
(* its spellLevel argument, and Spell::Rand never returns a random         *)
(* placeholder or Petrify, whatever its level argument (level 0 included). *)
(***************************************************************************)
RandomPlaceholders == {RANDOM, RANDOM1, RANDOM2, RANDOM3, RANDOM4, RANDOM5}

C24_PlaceholdersNeverSelected ==
    /\ decision.op = "getAllSpellIdsSuitableForSpellBook" =>
          \A i \in 1..Len(decision.result) :
             decision.result[i] \notin RandomPlaceholders \cup {PETRIFY, NONE}
    /\ decision.op = "Rand" => decision.result[1] \notin RandomPlaceholders \cup {PETRIFY}

(***************************************************************************)
(* C23: the length of the vector never decreases under AddSkill and        *)
(* FillMax: no operation removes a slot, and a slot that holds a valid     *)
(* entry keeps holding a valid entry of the same skill (only its level can *)
(* be overwritten, by AddSkill with a valid level).                        *)
(***************************************************************************)
SlotsKept(old, new) ==
    /\ Len(new) >= Len(old)
    /\ \A i \in 1..Len(old) :
          isValid(old[i]) => (isValid(new[i]) /\ new[i].skill = old[i].skill)

C23_NeverShrinks ==
    /\ last.op = "AddSkill" =>
          /\ SlotsKept(last.before, secs)
          /\ \A i \in 1..Len(last.before) :
                (isValid(last.before[i]) /\ secs[i] # last.before[i]) =>
                   (isValid(last.skill) /\ secs[i] = last.skill)
    /\ last.op = "FillMax" =>
          /\ SlotsKept(last.before, secs)
          /\ SubSeq(secs, 1, Len(last.before)) = last.before

\* a constructed vector padded by FillMax, then a present skill overwritten
\* with another level by AddSkill
C23_Witness ==
    /\ last.op = "AddSkill"
    /\ Len(last.before) = 8
    /\ Len(secs) = 8
    /\ Count(last.before) \in 1..7
    /\ \E i \in 1..Len(last.before) :
          /\ isValid(last.before[i])
          /\ secs[i].skill = last.before[i].skill
          /\ secs[i].level # last.before[i].level

(***************************************************************************)
(* C28: when the first pick of FindSkillsForLevelUp is a real skill but    *)
(* the second weighted pick is none, the second output has skill Unknown   *)
(* and is not a valid entry although NextLevel has been applied to it, and *)
(* passing it to AddSkill leaves the vector unchanged.                     *)
(***************************************************************************)
\* the second weighted pick of the recorded call on vector v is none
SecondPickNone(v) ==
    /\ sec1.skill # UNKNOWN
    /\ SecondaryPriorityFromRace(last.race, ExcludeSecond(ExcludeSkills(v), sec1.skill),
                                 last.seed2) = UNKNOWN

C28_NoneSecondPickIsInert ==
    /\ (Called /\ SecondPickNone(secs)) =>
          /\ sec2.skill = UNKNOWN
          /\ sec2.level = NextLevel(Secondary(UNKNOWN, GetLevel(secs, UNKNOWN))).level
          /\ sec2.level # NONE
          /\ ~isValid(sec2)
    /\ (last.op = "AddSkill" /\ last.skill = sec2 /\ SecondPickNone(last.before)) =>
          secs = last.before

\* the only weighted skill was picked first; the second output, stepped to
\* Basic, has been passed to AddSkill
C28_Witness ==
    /\ last.op = "AddSkill"
    /\ SecondPickNone(last.before)
    /\ isValid(sec1)
    /\ last.skill = sec2
    /\ sec2 = [skill |-> UNKNOWN, level |-> BASIC]
    /\ Count(last.before) > 0
    /\ secs = last.before

(***************************************************************************)
(* C25: a valid proposal of FindSkillsForLevelUp is never dropped by       *)
(* AddSkill on the same vector: afterwards GetLevel of the skill is the    *)
(* proposed level, GetTotalLevel() has grown by exactly 1 and Count() has  *)
(* grown by 1 if the skill was new and by 0 otherwise.                     *)
(***************************************************************************)
\* a valid proposal of the recorded call has been passed to AddSkill
ProposalLearned ==
    /\ last.op = "AddSkill"
    /\ last.skill \in {sec1, sec2}
    /\ sec1.skill # UNKNOWN
    /\ isValid(last.skill)

C25_ProposalNeverDropped ==
    ProposalLearned =>
        /\ GetLevel(secs, last.skill.skill) = last.skill.level
        /\ GetTotalLevel(secs) = GetTotalLevel(last.before) + 1
        /\ Count(secs) = Count(last.before)
                         + (IF GetLevel(last.before, last.skill.skill) = NONE THEN 1 ELSE 0)

\* a new skill proposed for a vector padded with empty entries and learned
C25_Witness ==
    /\ ProposalLearned
    /\ Len(last.before) = 8
    /\ Count(last.before) \in 1..7
    /\ NoDuplicateSkill(last.before)
    /\ \A i \in 1..8 : isValid(last.before[i]) \/ last.before[i] = SecondaryDefault
    /\ GetLevel(last.before, last.skill.skill) = NONE
    /\ GetLevel(secs, last.skill.skill) = BASIC
    /\ Count(secs) = Count(last.before) + 1

(***************************************************************************)
(* C26: level-up progression terminates: calling FindSkillsForLevelUp and  *)
(* applying one valid proposal through AddSkill can happen at most 24      *)
(* times (8 slots x 3 levels); GetTotalLevel() never exceeds 24, and once  *)
(* 8 skills are at Expert both proposals are none for every seed pair and  *)
(* weight table.                                                           *)
(***************************************************************************)
EightExperts(v) == Cardinality({k \in PATHFINDING..WATERMAGIC : ExpertIn(v, k)}) = 8

C26_ProgressionTerminates ==
    /\ calls <= 24
    /\ GetTotalLevel(secs) <= 24
    /\ calls <= GetTotalLevel(secs)
    /\ last.op = "AddSkill" => GetTotalLevel(secs) = GetTotalLevel(last.before) + 1
    /\ (Called /\ EightExperts(secs)) => (~isValid(sec1) /\ ~isValid(sec2))
    /\ EightExperts(secs) =>
          \A race \in ProgressRaces, seedSkill1 \in 0..MaxSeed, seedSkill2 \in 0..MaxSeed :
             LET out == FindSkillsForLevelUp(secs, race, seedSkill1, seedSkill2, sec1, sec2)
             IN  ~isValid(out.sec1) /\ ~isValid(out.sec2)

\* 24 proposals applied from the empty vector on; the next call proposes nothing
C26_Witness ==
    /\ calls = 24
    /\ GetTotalLevel(secs) = 24
    /\ EightExperts(secs)
    /\ Called
    /\ sec1.skill = UNKNOWN
    /\ ~isValid(sec2)

====
